---- MODULE Spec2Model ----
(***************************************************************************)
(* Vigilon monitoring and alerting engine: the scheduler (Monitor.Start,   *)
(* checkAllServers, checkServer), the alert generator (handleAlert), the   *)
(* push ingestion handler (API.handleAgentReport) and the storage          *)
(* operations they call.                                                   *)
(*                                                                         *)
(* Time is a discrete clock counted in units of five minutes.  Every       *)
(* storage call, every remote command and every access to the in-memory    *)
(* cooldown table is one step, so that check tasks, overlapping sweeps and *)
(* report handlers interleave as goroutines do.  The tables service_checks *)
(* and alerts are bags of rows: the rows without their id column.          *)
(***************************************************************************)
EXTENDS Integers, Sequences, FiniteSets, Bags, TLC

\* ---------------------------------------------------------------- bounds
MaxTime      == 2   \* the clock of Spec and SpecOverlap stops here
MaxInFlight  == 1   \* a sweep of Spec starts only with fewer tasks than this in flight
MaxOverlap   == 2   \* the same for SpecOverlap: sweeps overlap
MaxReports   == 2   \* agent reports received in one behaviour
MaxSent      == 1   \* reports the collector sends in one behaviour
MaxRequests  == 4   \* web requests handled in one behaviour
MaxRestarts  == 1   \* the monitoring process is restarted at most this often
MaxUsers     == 3   \* rows ever created in the table users
MaxConns     == 2   \* SSE connections opened in one behaviour
MaxBroadcasts == 2  \* messages the broadcaster hands to the manager in one behaviour
MaxServices  == 3   \* rows ever created in the table services by an operator
StaleHorizon == 3   \* the clock of SpecStale stops here
PoolHorizon  == 12  \* the clock of SpecPool stops here

\* ------------------------------------------------------ program constants
maxWorkers    == 10  \* monitor.New: maxWorkers := 10
idleThreshold == 1   \* checkIdleStatus: 5 * time.Minute, one unit of the clock
interval      == 1   \* monitoring.check_interval: five minutes
alertCooldown == 2   \* monitoring.alert_cooldown: ten minutes
sessionTTL    == 288 \* handleLogin: 24 * time.Hour
chanCap       == 10  \* ServeHTTP: make(chan []byte, 10)

\* ------------------------------------------------------------ vocabulary
ModePull   == "pull"
ModePush   == "push"
ModeHybrid == "hybrid"
Modes      == {ModePull, ModePush, ModeHybrid}

StatusRunning  == "running"
StatusStopped  == "stopped"
StatusFailed   == "failed"
StatusUnknown  == "unknown"
StatusDegraded == "degraded"
Statuses == {StatusRunning, StatusStopped, StatusFailed, StatusUnknown, StatusDegraded}

ConnectionNotConnected == "not_connected"
ConnectionConnected    == "connected"
ConnectionIdle         == "idle"
ConnectionDisconnected == "disconnected"
ConnectionStatuses == {ConnectionNotConnected, ConnectionConnected,
                       ConnectionIdle, ConnectionDisconnected}

\* the service names in use, in collation order
ServiceNames == <<"nginx", "sshd">>

\* the host names in use, in collation order: host i is the i-th by name
HostNames == <<"host-01", "host-02", "host-03", "host-04", "host-05", "host-06",
               "host-07", "host-08", "host-09", "host-10", "host-11">>

Null == -1          \* SQL NULL / Go nil for a timestamp
NoToken  == ""            \* agent_token of a host that was given none
BadToken == "bogus"       \* a token no host carries
TokenOf(id) == ToString(id)   \* the token generated for push host id

VARIABLES
    now,            \* wall clock (time.Now, CURRENT_TIMESTAMP)
    servers,        \* table servers: id -> row
    services,       \* table services: sequence of rows, id = position
    service_checks, \* table service_checks: bag of rows, append-only
    alerts,         \* table alerts: bag of rows, append-only
    lastAlerts,     \* Monitor.lastAlerts: <<serverID, serviceID>> -> time
    workerSem,      \* number of slots held in Monitor.workerSem
    tasks,          \* bag of running host check goroutines
    sched,          \* the Start / checkAllServers goroutine
    tickPending,    \* a tick is buffered in ticker.C
    nreports,       \* reports received so far
    resp,           \* the last ingestion request and the code it was answered with
    contacted,      \* ids of the hosts a remote command was sent to
    main,           \* where func main is: serving, or in its shutdown
    cachedServices, \* the collector's cachedServices: the names it monitors
    poll,           \* the last service-list request and its answer
    handlers,       \* bag of report handlers that are between two storage calls
    sessions,       \* table sessions: sequence of rows, token = position
    users,          \* table users: id -> row
    web,            \* the last web request, its cookie and whether it was let in
    ssh,            \* a status query: its input and what CheckService returns
    boot,           \* the monitoring process: how often it was restarted, and when
    sse             \* sse.Manager, the goroutines of api.New and the SSE clients

vars == <<now, servers, services, service_checks, alerts, lastAlerts, workerSem,
          tasks, sched, tickPending, nreports, resp, contacted, main,
          cachedServices, poll, handlers, sessions, users, web, ssh, boot, sse>>

\* the state outside the monitoring engine: the collector, the report handlers
\* in flight, the web sessions, the status query under study
Outside == <<cachedServices, poll, handlers, sessions, users, web, ssh, boot, sse>>

\* main, shutdown: mon.Stop() closes stopCh and waits for the tasks; cancel()
\* follows when Stop has returned
stopCh  == main # "serving"     \* m.stopCh is closed
ctxDone == main = "exited"      \* the context handed to Start is cancelled

\* ------------------------------------------------------------- helpers
Since(t) == now - t                      \* time.Since

Put(b, e)  == b (+) SetToBag({e})
Take(b, e) == b (-) SetToBag({e})

\* ---------------------------------------------------------------- storage
\* DB.GetAllServers: the rows, ORDER BY name (host i is named by its id)
GetAllServers ==
    [i \in 1..Cardinality(DOMAIN servers) |->
        [id |-> i, name |-> servers[i].name, mode |-> servers[i].mode,
         enabled |-> servers[i].enabled,
         token |-> servers[i].token, status |-> servers[i].status,
         last_seen |-> servers[i].last_seen]]

\* DB.UpdateServerLastSeen: last_seen = now AND connection_status = 'connected'
UpdateServerLastSeen(id) ==
    [servers EXCEPT ![id].last_seen = now, ![id].status = ConnectionConnected]

\* DB.UpdateServerConnectionStatus
UpdateServerConnectionStatus(id, status) ==
    [servers EXCEPT ![id].status = status]

\* DB.GetServicesByServer: the host's rows, ORDER BY name.  UNIQUE(server_id,
\* name) leaves at most one row per name.
RowsNamed(id, name) ==
    {k \in 1..Len(services) : services[k].server_id = id /\ services[k].name = name}

RECURSIVE SelectByServer(_, _)
SelectByServer(id, n) ==
    IF n > Len(ServiceNames) THEN <<>>
    ELSE LET rows == RowsNamed(id, ServiceNames[n])
         IN  (IF rows = {} THEN <<>>
              ELSE LET k == CHOOSE k \in rows : TRUE
                   IN  <<[id |-> k, name |-> services[k].name,
                          display_name |-> services[k].display_name,
                          enabled |-> services[k].enabled]>>)
             \o SelectByServer(id, n + 1)

GetServicesByServer(id) == SelectByServer(id, 1)

\* DB.CreateServiceCheck: checked_at is not in the INSERT, the column default
\* CURRENT_TIMESTAMP stamps the row.  "by" is a ghost field: the writing path.
CreateServiceCheck(service_id, status, by) ==
    Put(service_checks,
        [service_id |-> service_id, status |-> status,
         checked_at |-> now, by |-> by])

\* DB.GetLatestServiceCheck: ORDER BY checked_at DESC LIMIT 1; Null when no row
ChecksOf(service_id) ==
    {c \in BagToSet(service_checks) : c.service_id = service_id}

GetLatestServiceCheck(service_id) ==
    IF ChecksOf(service_id) = {} THEN Null
    ELSE LET c == CHOOSE c \in ChecksOf(service_id) :
                    \A d \in ChecksOf(service_id) : d.checked_at =< c.checked_at
         IN  c.checked_at

\* DB.CreateAlert: created_at defaults to CURRENT_TIMESTAMP
CreateAlert(server_id, service_id, status, message, sent_via) ==
    Put(alerts, [server_id |-> server_id, service_id |-> service_id,
                 status |-> status, message |-> message, sent_via |-> sent_via,
                 created_at |-> now])

\* -------------------------------------------------------------- initial state
\* A freshly created host: CreateServer defaults connection_status to
\* not_connected and leaves last_seen NULL.  The web form generates a token for
\* a push host and sends '' for the others unless the operator typed one.
NewServer(id, mode, enabled) ==
    [name |-> HostNames[id], mode |-> mode, enabled |-> enabled,
     token |-> IF mode = ModePush THEN TokenOf(id) ELSE NoToken,
     status |-> ConnectionNotConnected, last_seen |-> Null]

NewService(server_id, name, display_name, enabled) ==
    [server_id |-> server_id, name |-> name, display_name |-> display_name,
     enabled |-> enabled]

\* the service lists an operator has configured for host 1
NoServices  == <<>>
TwoServices == <<NewService(1, "nginx", "Web server", TRUE),
                 NewService(1, "sshd", "SSH daemon", FALSE)>>

\* the fleets the engine is started on: one host, its mode, its enabled flag
\* and its services
Fleets ==
    { [mode |-> ModePull,   enabled |-> TRUE,  services |-> TwoServices],
      [mode |-> ModePull,   enabled |-> TRUE,  services |-> NoServices],
      [mode |-> ModePull,   enabled |-> FALSE, services |-> TwoServices],
      [mode |-> ModeHybrid, enabled |-> TRUE,  services |-> TwoServices],
      [mode |-> ModePush,   enabled |-> TRUE,  services |-> TwoServices],
      [mode |-> ModePush,   enabled |-> TRUE,  services |-> NoServices],
      [mode |-> ModePush,   enabled |-> FALSE, services |-> TwoServices],
      [mode |-> ModePush,   enabled |-> FALSE, services |-> NoServices] }

InitFleet(fleet) ==
    /\ servers = [id \in {1} |-> NewServer(id, fleet.mode, fleet.enabled)]
    /\ services = fleet.services

EmptyTable == [k \in {} |-> 0]

\* the collector before its first refresh; no request handled yet
InitCollector ==
    /\ cachedServices = <<>>
    /\ poll = [client |-> "other", token |-> BadToken, code |-> 0,
               services |-> <<>>]
    /\ handlers = EmptyBag

\* the roles initDefaultData inserts, by id
RoleSuperAdmin == 1
RoleAdmin      == 2
RoleUser       == 3

\* the database as initialised: the default super administrator root with the
\* default password, no session
InitWeb ==
    /\ users = [id \in {1} |-> [enabled |-> TRUE, role_id |-> RoleSuperAdmin,
                                password |-> 0]]
    /\ sessions = <<>>
    /\ web = [n |-> 0, op |-> "none", token |-> 0, ok |-> FALSE]

\* no status query under study
NoQuery == [os |-> "", output |-> <<>>, exit |-> 0, status |-> "", error |-> ""]

\* monitor.New and the state Start is entered in: the initial sweep is due
InitMonitor ==
    /\ now = 0
    /\ service_checks = EmptyBag
    /\ alerts = EmptyBag
    /\ lastAlerts = EmptyTable
    /\ workerSem = 0
    /\ tasks = EmptyBag
    /\ sched = [pc |-> "sweep", list |-> <<>>, idx |-> 0]
    /\ tickPending = FALSE
    /\ nreports = 0
    /\ resp = [code |-> 0, token |-> BadToken, entry |-> <<>>]
    /\ contacted = {}
    /\ main = "serving"
    /\ boot = [n |-> 0, at |-> 0]

\* no SSE manager under study
NoSse == [new |-> "none"]

InitEngine == InitMonitor /\ InitCollector /\ InitWeb /\ ssh = NoQuery /\ sse = NoSse

Init == InitEngine /\ \E fleet \in Fleets : InitFleet(fleet)

\* ------------------------------------------------------------------ scheduler
\* checkAllServers, entry: servers, err := m.db.GetAllServers()
SchedGetAll ==
    /\ sched.pc = "sweep"
    /\ sched' = [pc |-> "host", list |-> GetAllServers, idx |-> 1]
    /\ UNCHANGED <<now, servers, services, service_checks, alerts, lastAlerts,
                   workerSem, tasks, tickPending, nreports, resp, contacted,
                   main, Outside>>

\* mutant: a failing GetAllServers ends the loop of Start
SchedGetAllFail_fatal ==
    /\ sched.pc = "sweep"
    /\ sched' = [pc |-> "returned", list |-> <<>>, idx |-> 0]
    /\ UNCHANGED <<now, servers, services, service_checks, alerts, lastAlerts,
                   workerSem, tasks, tickPending, nreports, resp, contacted,
                   main, Outside>>

\* checkAllServers, entry: GetAllServers fails; the error is logged and the
\* sweep is given up: back to the select of Start
SchedGetAllFail ==
    /\ sched.pc = "sweep"
    /\ sched' = [pc |-> "wait", list |-> <<>>, idx |-> 0]
    /\ UNCHANGED <<now, servers, services, service_checks, alerts, lastAlerts,
                   workerSem, tasks, tickPending, nreports, resp, contacted,
                   main, Outside>>

\* mutant: the test of the monitoring mode is missing
IdleDue_anyMode(server) ==
    /\ server.status = ConnectionConnected
    /\ server.last_seen # Null
    /\ Since(server.last_seen) > idleThreshold

\* checkIdleStatus on the row the sweep read
IdleDue(server) ==
    /\ server.mode = ModePush
    /\ server.status = ConnectionConnected
    /\ server.last_seen # Null
    /\ Since(server.last_seen) > idleThreshold

checkIdleStatus(server) ==
    IF IdleDue(server)
    THEN UpdateServerConnectionStatus(server.id, ConnectionIdle)
    ELSE servers

\* the sweep is over: back to the select of Start
SchedAfter(idx) ==
    IF idx > Len(sched.list)
    THEN [pc |-> "wait", list |-> <<>>, idx |-> 0]
    ELSE [sched EXCEPT !.pc = "host", !.idx = idx]

\* mutant: the enabled test comes first, the idle rule only for enabled hosts
SchedHost_enabledFirst ==
    /\ sched.pc = "host"
    /\ sched.idx =< Len(sched.list)
    /\ LET server == sched.list[sched.idx]
       IN  /\ servers' = IF server.enabled THEN checkIdleStatus(server) ELSE servers
           /\ sched' = IF server.enabled
                       THEN [sched EXCEPT !.pc = "acquire"]
                       ELSE SchedAfter(sched.idx + 1)
    /\ UNCHANGED <<now, services, service_checks, alerts, lastAlerts, workerSem,
                   tasks, tickPending, nreports, resp, contacted,
                   main, Outside>>

\* checkAllServers, loop body up to the semaphore: checkIdleStatus, then
\* "if !server.Enabled { continue }"
SchedHost ==
    /\ sched.pc = "host"
    /\ sched.idx =< Len(sched.list)
    /\ LET server == sched.list[sched.idx]
       IN  /\ servers' = checkIdleStatus(server)
           /\ sched' = IF server.enabled
                       THEN [sched EXCEPT !.pc = "acquire"]
                       ELSE SchedAfter(sched.idx + 1)
    /\ UNCHANGED <<now, services, service_checks, alerts, lastAlerts, workerSem,
                   tasks, tickPending, nreports, resp, contacted,
                   main, Outside>>

\* CheckService returns no *ServiceInfo (nil), or the one the metric queries
\* have filled
NoInfo   == "nil"
WithInfo == "info"

\* the goroutine checkAllServers starts for a host: about to call checkServer
NewTask(server) ==
    [srv |-> [id |-> server.id, name |-> server.name, mode |-> server.mode],
     pc |-> "start", svcs |-> <<>>, i |-> 0, status |-> "", error |-> "",
     info |-> NoInfo, written |-> <<>>]

\* mutant: the send succeeds on a full channel
CanAcquire_offByOne == workerSem =< maxWorkers

\* "m.workerSem <- struct{}{}" blocks while the channel holds maxWorkers items
CanAcquire == workerSem < maxWorkers

\* mutant: a host that finds no free slot is skipped
SchedAcquire_dropWhenFull ==
    /\ sched.pc = "acquire"
    /\ workerSem' = IF CanAcquire THEN workerSem + 1 ELSE workerSem
    /\ tasks' = IF CanAcquire THEN Put(tasks, NewTask(sched.list[sched.idx]))
                ELSE tasks
    /\ sched' = SchedAfter(sched.idx + 1)
    /\ UNCHANGED <<now, servers, services, service_checks, alerts, lastAlerts,
                   tickPending, nreports, resp, contacted, main, Outside>>

\* checkAllServers: acquire a slot, wg.Add(1), go func(srv)
SchedAcquire ==
    /\ sched.pc = "acquire"
    /\ CanAcquire
    /\ workerSem' = workerSem + 1
    /\ tasks' = Put(tasks, NewTask(sched.list[sched.idx]))
    /\ sched' = SchedAfter(sched.idx + 1)
    /\ UNCHANGED <<now, servers, services, service_checks, alerts, lastAlerts,
                   tickPending, nreports, resp, contacted, main, Outside>>

\* Start: "case <-ticker.C: m.checkAllServers(ctx)"
SchedTickWhen(cap) ==
    /\ sched.pc = "wait"
    /\ tickPending
    /\ BagCardinality(tasks) < cap
    /\ tickPending' = FALSE
    /\ sched' = [pc |-> "sweep", list |-> <<>>, idx |-> 0]
    /\ UNCHANGED <<now, servers, services, service_checks, alerts, lastAlerts,
                   workerSem, tasks, nreports, resp, contacted,
                   main, Outside>>

\* Start: "case <-m.stopCh: return" and "case <-ctx.Done(): return".  A select
\* with several ready cases takes any of them: the tick case stays enabled
SchedReturn ==
    /\ sched.pc = "wait"
    /\ stopCh \/ ctxDone
    /\ sched' = [pc |-> "returned", list |-> <<>>, idx |-> 0]
    /\ UNCHANGED <<now, servers, services, service_checks, alerts, lastAlerts,
                   workerSem, tasks, tickPending, nreports, resp, contacted, main, Outside>>

SchedTick        == SchedTickWhen(MaxInFlight)
SchedTickOverlap == SchedTickWhen(MaxOverlap)
SchedTickPool    == SchedTickWhen(maxWorkers + 1)

\* the clock advances; the ticker buffers one tick per interval and drops a
\* tick when one is still buffered
AdvanceClockTo(horizon) ==
    /\ now < horizon
    /\ now' = now + 1
    /\ tickPending' = (tickPending \/ (now + 1) % interval = 0)
    /\ UNCHANGED <<servers, services, service_checks, alerts, lastAlerts, workerSem,
                   tasks, sched, nreports, resp, contacted, main, Outside>>

AdvanceClock      == AdvanceClockTo(MaxTime)
AdvanceClockStale == AdvanceClockTo(StaleHorizon)
AdvanceClockPool  == AdvanceClockTo(PoolHorizon)

\* ----------------------------------------------------------------- check task
\* mutant: the enabled test of the loop is missing
NextEnabled_noSkip(svcs, i) ==
    IF i + 1 > Len(svcs) THEN Len(svcs) + 1 ELSE i + 1

\* the position of the next enabled service after position i of the list
\* ("if !service.Enabled { continue }")
RECURSIVE NextEnabled(_, _)
NextEnabled(svcs, i) ==
    IF i + 1 > Len(svcs) THEN Len(svcs) + 1
    ELSE IF svcs[i + 1].enabled THEN i + 1
    ELSE NextEnabled(svcs, i + 1)

\* the loop of checkServer moves on to the next service, or leaves the loop
Advance(t) ==
    LET j == NextEnabled(t.svcs, t.i)
    IN  [t EXCEPT !.i = j, !.status = "", !.error = "", !.info = NoInfo,
                  !.pc = IF j > Len(t.svcs) THEN "lastseen" ELSE "check"]

\* checkServer, entry: services, err := m.db.GetServicesByServer(server.ID)
TaskGetServices ==
    \E t \in BagToSet(tasks) :
        /\ t.pc = "start"
        /\ tasks' = Put(Take(tasks, t),
                        Advance([t EXCEPT !.svcs = GetServicesByServer(t.srv.id)]))
        /\ UNCHANGED <<now, servers, services, service_checks, alerts, lastAlerts,
                       workerSem, sched, tickPending, nreports, resp,
                       contacted, main, Outside>>

\* checkServer, entry: GetServicesByServer fails, "return": the deferred
\* function runs next
TaskGetServicesFail ==
    \E t \in BagToSet(tasks) :
        /\ t.pc = "start"
        /\ tasks' = Put(Take(tasks, t), [t EXCEPT !.pc = "release"])
        /\ UNCHANGED <<now, servers, services, service_checks, alerts, lastAlerts,
                       workerSem, sched, tickPending, nreports, resp,
                       contacted, main, Outside>>

\* what SSHChecker.CheckService returns when executeSSH returns no error: the
\* status read from the command's output, running or not (a Windows host that
\* prints Stopped)
SshOutcomes ==
    { [status |-> StatusRunning, error |-> ""],
      [status |-> StatusStopped, error |-> ""] }

\* what it returns when executeSSH returns an error: "return
\* models.StatusUnknown, nil, fmt.Errorf(...)"
CheckError == "failed to check service"
FailedOutcome == [status |-> StatusUnknown, error |-> CheckError]

\* mutant: the metrics are collected whatever the status query returned
Checked_alwaysInfo(t, outcome) ==
    [t EXCEPT !.pc = "save", !.status = outcome.status, !.error = outcome.error,
              !.info = WithInfo]

\* checkServicePull: check.Status = status, check.ErrorMessage = err.Error(),
\* and the metrics "if info != nil"; CheckService returns an info only with the
\* status running ("if status == models.StatusRunning")
Checked(t, outcome) ==
    [t EXCEPT !.pc = "save", !.status = outcome.status, !.error = outcome.error,
              !.info = IF outcome.status = StatusRunning THEN WithInfo ELSE NoInfo]

\* checkServicePull / checkServiceHybrid: the remote command returns its output.
\* exec.CommandContext: a command whose context is done is killed, or is not
\* started at all
TaskCheckPull ==
    \E t \in BagToSet(tasks) :
        \E outcome \in SshOutcomes :
            /\ t.pc = "check"
            /\ t.srv.mode \in {ModePull, ModeHybrid}
            /\ ~ctxDone
            /\ contacted' = contacted \cup {t.srv.id}
            /\ tasks' = Put(Take(tasks, t), Checked(t, outcome))
            /\ UNCHANGED <<now, servers, services, service_checks, alerts,
                           lastAlerts, workerSem, sched, tickPending, nreports,
                           resp, main, Outside>>

\* mutant: checkServer gives the host up when a remote command fails
TaskCheckFail_abort ==
    \E t \in BagToSet(tasks) :
        /\ t.pc = "check"
        /\ t.srv.mode \in {ModePull, ModeHybrid}
        /\ contacted' = contacted \cup {t.srv.id}
        /\ tasks' = Put(Take(tasks, t), [t EXCEPT !.pc = "release"])
        /\ UNCHANGED <<now, servers, services, service_checks, alerts, lastAlerts,
                       workerSem, sched, tickPending, nreports, resp,
                       main, Outside>>

\* checkServicePull / checkServiceHybrid: executeSSH returns an error (the
\* connection fails or the command exits with an error)
TaskCheckFail ==
    \E t \in BagToSet(tasks) :
        /\ t.pc = "check"
        /\ t.srv.mode \in {ModePull, ModeHybrid}
        /\ ~ctxDone
        /\ contacted' = contacted \cup {t.srv.id}
        /\ tasks' = Put(Take(tasks, t), Checked(t, FailedOutcome))
        /\ UNCHANGED <<now, servers, services, service_checks, alerts, lastAlerts,
                       workerSem, sched, tickPending, nreports, resp,
                       main, Outside>>

\* executeSSH: execCmd.Output() does not return: the remote command hangs on a
\* connection that stays alive.  No deadline is set on ctx or on the command.
TaskHang ==
    \E t \in BagToSet(tasks) :
        /\ t.pc = "check"
        /\ t.srv.mode \in {ModePull, ModeHybrid}
        /\ ~ctxDone
        /\ contacted' = contacted \cup {t.srv.id}
        /\ tasks' = Put(Take(tasks, t), [t EXCEPT !.pc = "hung"])
        /\ UNCHANGED <<now, servers, services, service_checks, alerts, lastAlerts,
                       workerSem, sched, tickPending, nreports, resp, main, Outside>>

\* exec.CommandContext(ctx, ...): the command in flight is killed when ctx is
\* done, and Output returns the error
KillError == "signal: killed"

TaskKilled ==
    \E t \in BagToSet(tasks) :
        /\ t.pc = "hung"
        /\ ctxDone
        /\ tasks' = Put(Take(tasks, t),
                        Checked(t, [status |-> StatusUnknown, error |-> KillError]))
        /\ UNCHANGED <<now, servers, services, service_checks, alerts, lastAlerts,
                       workerSem, sched, tickPending, nreports, resp,
                       contacted, main, Outside>>

\* exec.CommandContext(ctx, ...): a command is not started when ctx is done
CancelError == "context canceled"

TaskCheckCancelled ==
    \E t \in BagToSet(tasks) :
        /\ t.pc = "check"
        /\ t.srv.mode \in {ModePull, ModeHybrid}
        /\ ctxDone
        /\ tasks' = Put(Take(tasks, t),
                        Checked(t, [status |-> StatusUnknown, error |-> CancelError]))
        /\ UNCHANGED <<now, servers, services, service_checks, alerts, lastAlerts,
                       workerSem, sched, tickPending, nreports, resp,
                       contacted, main, Outside>>

\* mutant: a fresh report of a service that is not running is returned as the
\* check of the tick
checkServicePush_relay(service_id) ==
    LET lastCheck == GetLatestServiceCheck(service_id)
        reported == {c.status : c \in {d \in BagToSet(service_checks) :
                        d.service_id = service_id /\ d.checked_at = lastCheck}}
    IN  IF lastCheck = Null THEN StatusUnknown
        ELSE IF Since(lastCheck) > 2 * interval THEN StatusUnknown
        ELSE IF StatusStopped \in reported THEN StatusStopped
        ELSE ""

\* mutant: the staleness comparison is inverted
checkServicePush_inverted(service_id) ==
    LET lastCheck == GetLatestServiceCheck(service_id)
    IN  IF lastCheck = Null THEN StatusUnknown
        ELSE IF Since(lastCheck) < 2 * interval THEN StatusUnknown
        ELSE ""

\* mutant: a service without any check is left alone
checkServicePush_noneIsFresh(service_id) ==
    LET lastCheck == GetLatestServiceCheck(service_id)
    IN  IF lastCheck = Null THEN ""
        ELSE IF Since(lastCheck) > 2 * interval THEN StatusUnknown
        ELSE ""

\* checkServicePush: "" stands for the nil check
checkServicePush(service_id) ==
    LET lastCheck == GetLatestServiceCheck(service_id)
    IN  IF lastCheck = Null THEN StatusUnknown
        ELSE IF Since(lastCheck) > 2 * interval THEN StatusUnknown
        ELSE ""

\* checkServicePush: the ErrorMessage of the check it synthesizes
checkServicePushError(service_id) ==
    IF GetLatestServiceCheck(service_id) = Null
    THEN "No data received from agent"
    ELSE "Agent not reporting"

TaskCheckPush ==
    \E t \in BagToSet(tasks) :
        /\ t.pc = "check"
        /\ t.srv.mode = ModePush
        /\ LET check == checkServicePush(t.svcs[t.i].id)
           IN  tasks' = Put(Take(tasks, t),
                            IF check = "" THEN Advance(t)
                            ELSE [t EXCEPT !.pc = "save", !.status = check,
                                     !.error = checkServicePushError(t.svcs[t.i].id)])
        /\ UNCHANGED <<now, servers, services, service_checks, alerts, lastAlerts,
                       workerSem, sched, tickPending, nreports, resp,
                       contacted, main, Outside>>

\* the writing path of a check task, by mode (ghost)
PathOf(mode) == IF mode = ModePush THEN "stale" ELSE "remote"

\* mutant: the test of the status is missing
AlertNeeded_always(status) == TRUE

\* handleAlert: "if check.Status == models.StatusRunning { return }"
AlertNeeded(status) == status # StatusRunning

\* checkServer: m.db.CreateServiceCheck(check), then handleAlert up to
\* "if check.Status == models.StatusRunning { return }"
TaskSave ==
    \E t \in BagToSet(tasks) :
        /\ t.pc = "save"
        /\ service_checks' = CreateServiceCheck(t.svcs[t.i].id, t.status, PathOf(t.srv.mode))
        /\ LET u == [t EXCEPT !.written = Append(@, t.svcs[t.i].id)]
           IN  tasks' = Put(Take(tasks, t),
                            IF AlertNeeded(t.status) THEN [u EXCEPT !.pc = "alert"]
                            ELSE Advance(u))
        /\ UNCHANGED <<now, servers, services, alerts, lastAlerts, workerSem, sched,
                       tickPending, nreports, resp, contacted,
                       main, Outside>>

\* checkServer: CreateServiceCheck fails; the error is logged and handleAlert
\* is called all the same
TaskSaveFail ==
    \E t \in BagToSet(tasks) :
        /\ t.pc = "save"
        /\ tasks' = Put(Take(tasks, t),
                        IF AlertNeeded(t.status) THEN [t EXCEPT !.pc = "alert"]
                        ELSE Advance(t))
        /\ UNCHANGED <<now, servers, services, service_checks, alerts, lastAlerts,
                       workerSem, sched, tickPending, nreports, resp,
                       contacted, main, Outside>>

AlertKey(t) == <<t.srv.id, t.svcs[t.i].id>>

\* mutant: an entry exactly the cooldown old still suppresses
InCooldown_inclusive(key) ==
    /\ key \in DOMAIN lastAlerts
    /\ Since(lastAlerts[key]) =< alertCooldown

\* handleAlert: "exists && time.Since(lastAlert) < m.alertCooldown"
InCooldown(key) ==
    /\ key \in DOMAIN lastAlerts
    /\ Since(lastAlerts[key]) < alertCooldown

\* handleAlert: the read of lastAlerts under RLock and the cooldown test
TaskAlertRead ==
    \E t \in BagToSet(tasks) :
        /\ t.pc = "alert"
        /\ tasks' = Put(Take(tasks, t),
                        IF InCooldown(AlertKey(t)) THEN Advance(t)
                        ELSE [t EXCEPT !.pc = "create"])
        /\ UNCHANGED <<now, servers, services, service_checks, alerts, lastAlerts,
                       workerSem, sched, tickPending, nreports, resp,
                       contacted, main, Outside>>

\* handleAlert: the message, fmt.Sprintf as the sequence of its pieces
AlertMessage(display_name, host_name, status, error) ==
    <<"Service '", display_name, "' on server '", host_name, "' is ", status>>
    \o (IF error # "" THEN <<"\nError: ", error>> ELSE <<>>)

SentVia == "telegram"

\* handleAlert: m.db.CreateAlert(alert)
TaskCreateAlert ==
    \E t \in BagToSet(tasks) :
        /\ t.pc = "create"
        /\ alerts' = CreateAlert(t.srv.id, t.svcs[t.i].id, t.status,
                                 AlertMessage(t.svcs[t.i].display_name, t.srv.name,
                                              t.status, t.error),
                                 SentVia)
        /\ tasks' = Put(Take(tasks, t), [t EXCEPT !.pc = "mark"])
        /\ UNCHANGED <<now, servers, services, service_checks, lastAlerts, workerSem,
                       sched, tickPending, nreports, resp, contacted,
                       main, Outside>>

\* mutant: the last-alert time is recorded although the alert was not stored
TaskCreateAlertFail_marks ==
    \E t \in BagToSet(tasks) :
        /\ t.pc = "create"
        /\ tasks' = Put(Take(tasks, t), [t EXCEPT !.pc = "mark"])
        /\ UNCHANGED <<now, servers, services, service_checks, alerts, lastAlerts,
                       workerSem, sched, tickPending, nreports, resp, contacted,
                       main, Outside>>

\* handleAlert: m.db.CreateAlert fails; the error is logged and handleAlert
\* returns before lastAlerts is written
TaskCreateAlertFail ==
    \E t \in BagToSet(tasks) :
        /\ t.pc = "create"
        /\ tasks' = Put(Take(tasks, t), Advance(t))
        /\ UNCHANGED <<now, servers, services, service_checks, alerts, lastAlerts,
                       workerSem, sched, tickPending, nreports, resp, contacted,
                       main, Outside>>

\* handleAlert: m.lastAlerts[alertKey] = time.Now() under Lock
TaskMark ==
    \E t \in BagToSet(tasks) :
        /\ t.pc = "mark"
        /\ lastAlerts' = [k \in DOMAIN lastAlerts \cup {AlertKey(t)} |->
                             IF k = AlertKey(t) THEN now ELSE lastAlerts[k]]
        /\ tasks' = Put(Take(tasks, t), Advance(t))
        /\ UNCHANGED <<now, servers, services, service_checks, alerts, workerSem,
                       sched, tickPending, nreports, resp, contacted,
                       main, Outside>>

\* checkServer, after the loop: m.db.UpdateServerLastSeen(server.ID)
TaskLastSeen ==
    \E t \in BagToSet(tasks) :
        /\ t.pc = "lastseen"
        /\ servers' = UpdateServerLastSeen(t.srv.id)
        /\ tasks' = Put(Take(tasks, t), [t EXCEPT !.pc = "release"])
        /\ UNCHANGED <<now, services, service_checks, alerts, lastAlerts, workerSem,
                       sched, tickPending, nreports, resp, contacted,
                       main, Outside>>

\* checkServer, after the loop: UpdateServerLastSeen fails; the error is logged
TaskLastSeenFail ==
    \E t \in BagToSet(tasks) :
        /\ t.pc = "lastseen"
        /\ tasks' = Put(Take(tasks, t), [t EXCEPT !.pc = "release"])
        /\ UNCHANGED <<now, servers, services, service_checks, alerts, lastAlerts,
                       workerSem, sched, tickPending, nreports, resp,
                       contacted, main, Outside>>

\* the deferred function of the goroutine: <-m.workerSem, m.wg.Done()
TaskRelease ==
    \E t \in BagToSet(tasks) :
        /\ t.pc = "release"
        /\ workerSem' = workerSem - 1
        /\ tasks' = Take(tasks, t)
        /\ UNCHANGED <<now, servers, services, service_checks, alerts, lastAlerts,
                       sched, tickPending, nreports, resp, contacted,
                       main, Outside>>

\* ------------------------------------------------------- push ingestion
\* the service entries an agent sends
AgentStatuses == {StatusStopped}

ReportEntries ==
    {[name |-> n, status |-> st] :
        n \in {ServiceNames[k] : k \in 1..Len(ServiceNames)}, st \in AgentStatuses}

\* the tokens an agent sends: a host's token, or one that no host may carry
ReportTokens == {servers[id].token : id \in DOMAIN servers} \cup {BadToken}

\* mutant: a host without a token accepts any token
FindByToken_lenient(token) ==
    LET rows == GetAllServers
        hits == {i \in 1..Len(rows) : rows[i].token = token \/ rows[i].token = NoToken}
    IN  IF hits = {} THEN 0
        ELSE rows[CHOOSE i \in hits : \A j \in hits : i =< j].id

\* handleAgentReport: "if s.AgentToken == report.Token { server = s; break }"
\* over the rows of GetAllServers; 0 when the loop finds none
FindByToken(token) ==
    LET rows == GetAllServers
        hits == {i \in 1..Len(rows) : rows[i].token = token}
    IN  IF hits = {} THEN 0
        ELSE rows[CHOOSE i \in hits : \A j \in hits : i =< j].id

\* DB.CreateService: the INSERT fails on UNIQUE(server_id, name)
CanCreateService(server_id, name) == RowsNamed(server_id, name) = {}

\* mutant: the search compares the display name
FindService_byDisplayName(id, name) ==
    LET rows == GetServicesByServer(id)
        hits == {i \in 1..Len(rows) : rows[i].display_name = name}
    IN  IF hits = {} THEN 0 ELSE rows[CHOOSE i \in hits : TRUE].id

\* handleAgentReport, loop head: GetServicesByServer and the search by name;
\* 0 when the service is not there
FindService(id, name) ==
    LET rows == GetServicesByServer(id)
        hits == {i \in 1..Len(rows) : rows[i].name = name}
    IN  IF hits = {} THEN 0 ELSE rows[CHOOSE i \in hits : TRUE].id

\* handleAgentReport, "if service == nil": auto-create the service (enabled,
\* display name = name); the table after the entry
ServicesAfter(id, entry) ==
    IF FindService(id, entry.name) = 0 /\ CanCreateService(id, entry.name)
    THEN Append(services, NewService(id, entry.name, entry.name, TRUE))
    ELSE services

\* the service the entry's check is written for; 0 when CreateService failed
\* and the entry is skipped ("continue")
ServiceFor(id, entry) ==
    IF FindService(id, entry.name) # 0 THEN FindService(id, entry.name)
    ELSE IF CanCreateService(id, entry.name) THEN Len(services) + 1
    ELSE 0

\* handleAgentReport: decode, find the host by token (401 when there is none),
\* then for the entry find or create the service and write its check, then
\* UpdateServerLastSeen and answer 200
handleAgentReport(token, entry) ==
    LET id == FindByToken(token)
    IN  IF id = 0
        THEN /\ resp' = [code |-> 401, token |-> token, entry |-> entry]
             /\ UNCHANGED <<servers, services, service_checks>>
        ELSE /\ services' = ServicesAfter(id, entry)
             /\ service_checks' =
                    IF ServiceFor(id, entry) = 0 THEN service_checks
                    ELSE CreateServiceCheck(ServiceFor(id, entry), entry.status, "agent")
             /\ servers' = UpdateServerLastSeen(id)
             /\ resp' = [code |-> 200, token |-> token, entry |-> entry]

Report ==
    \E token \in ReportTokens, entry \in ReportEntries :
        /\ nreports < MaxReports
        /\ nreports' = nreports + 1
        /\ handleAgentReport(token, entry)
        /\ UNCHANGED <<now, alerts, lastAlerts, workerSem, tasks, sched, tickPending,
                       contacted, main, Outside>>

\* -------------------------------------------------------------- operator
\* handleDisconnectServer: UpdateServerConnectionStatus(id, disconnected)
Disconnect ==
    \E id \in DOMAIN servers :
        /\ servers[id].status # ConnectionDisconnected
        /\ servers' = UpdateServerConnectionStatus(id, ConnectionDisconnected)
        /\ UNCHANGED <<now, services, service_checks, alerts, lastAlerts, workerSem,
                       tasks, sched, tickPending, nreports, resp, contacted,
                       main, Outside>>

\* ------------------------------------------------------------------ main
Engine == <<now, servers, services, service_checks, alerts, lastAlerts, workerSem,
            tasks, sched, tickPending, nreports, resp, contacted, Outside>>

\* main, after the signal: mon.Stop() closes stopCh and enters m.wg.Wait()
MainStop ==
    /\ main = "serving"
    /\ main' = "stopping"
    /\ UNCHANGED Engine

\* Stop: m.wg.Wait() returns when no task is counted
MainWaited ==
    /\ main = "stopping"
    /\ tasks = EmptyBag
    /\ main' = "stopped"
    /\ UNCHANGED Engine

\* main: cancel()
MainCancel ==
    /\ main = "stopped"
    /\ main' = "exited"
    /\ UNCHANGED Engine

\* ------------------------------------------------------------ specifications
\* the engine with its ingestion endpoint and the operator; sweeps do not overlap
Next ==
    \/ SchedGetAll \/ SchedHost \/ SchedAcquire \/ SchedTick \/ AdvanceClock
    \/ TaskGetServices \/ TaskCheckPull \/ TaskCheckPush \/ TaskSave
    \/ TaskAlertRead \/ TaskCreateAlert \/ TaskMark \/ TaskLastSeen \/ TaskRelease
    \/ Report
    \/ Disconnect

Spec == Init /\ [][Next]_vars

\* the scheduler alone on a host checked by remote commands: a sweep starts
\* while a task of the one before is still waiting for its command
InitOverlap ==
    /\ InitEngine
    /\ \E fleet \in {f \in Fleets : /\ f.enabled /\ f.mode # ModePush
                                    /\ f.services # NoServices} : InitFleet(fleet)

NextOverlap ==
    \/ SchedGetAll \/ SchedHost \/ SchedAcquire \/ SchedTickOverlap \/ AdvanceClock
    \/ TaskGetServices \/ TaskCheckPull \/ TaskSave
    \/ TaskAlertRead \/ TaskCreateAlert \/ TaskMark \/ TaskLastSeen \/ TaskRelease

SpecOverlap == InitOverlap /\ [][NextOverlap]_vars

\* a push host over a horizon long enough for its agent to fall silent
InitStale ==
    /\ InitEngine
    /\ \E fleet \in {f \in Fleets : f.enabled /\ f.mode = ModePush} : InitFleet(fleet)

NextStale ==
    \/ SchedGetAll \/ SchedHost \/ SchedAcquire \/ SchedTick \/ AdvanceClockStale
    \/ TaskGetServices \/ TaskCheckPush \/ TaskSave
    \/ TaskAlertRead \/ TaskCreateAlert \/ TaskMark \/ TaskLastSeen \/ TaskRelease
    \/ Report

SpecStale == InitStale /\ [][NextStale]_vars

\* the worker pool under load: the tasks of a host outlive many sweeps
InitPool ==
    /\ InitEngine
    /\ InitFleet([mode |-> ModePull, enabled |-> TRUE, services |-> NoServices])

NextPool ==
    \/ SchedGetAll \/ SchedHost \/ SchedAcquire \/ SchedTickPool \/ AdvanceClockPool
    \/ TaskGetServices \/ TaskLastSeen \/ TaskRelease

SpecPool == InitPool /\ [][NextPool]_vars

\* the initial sweep over two hosts checked by remote commands, with remote
\* commands and storage calls that fail
FaultyFleet ==
    /\ servers = [id \in {1, 2} |->
                     NewServer(id, IF id = 1 THEN ModePull ELSE ModeHybrid, TRUE)]
    /\ services = TwoServices \o <<NewService(2, "nginx", "Proxy", TRUE)>>

InitFaults == InitEngine /\ FaultyFleet

NextFaults ==
    \/ SchedGetAll \/ SchedHost \/ SchedAcquire
    \/ TaskGetServices \/ TaskGetServicesFail
    \/ TaskCheckPull \/ TaskCheckFail
    \/ TaskSave \/ TaskSaveFail
    \/ TaskAlertRead \/ TaskCreateAlert \/ TaskMark
    \/ TaskLastSeen \/ TaskLastSeenFail \/ TaskRelease

SpecFaults == InitFaults /\ [][NextFaults]_vars

\* the sweeps over one host checked by remote commands, with two enabled
\* services and a connection that may fail for any of the two
BothServices == <<NewService(1, "nginx", "Web server", TRUE),
                  NewService(1, "sshd", "SSH daemon", TRUE)>>

InitTransport ==
    /\ InitEngine
    /\ servers = [id \in {1} |-> NewServer(id, ModePull, TRUE)]
    /\ services = BothServices

NextTransport ==
    \/ SchedGetAll \/ SchedHost \/ SchedAcquire \/ SchedTick \/ AdvanceClock
    \/ TaskGetServices \/ TaskCheckPull \/ TaskCheckFail
    \/ TaskSave \/ TaskAlertRead \/ TaskCreateAlert \/ TaskMark
    \/ TaskLastSeen \/ TaskRelease

SpecTransport == InitTransport /\ [][NextTransport]_vars

\* mutant: the last-alert times outlive the process
Restart_keepsCooldown ==
    /\ boot.n < MaxRestarts
    /\ boot' = [n |-> boot.n + 1, at |-> now]
    /\ workerSem' = 0
    /\ tasks' = EmptyBag
    /\ sched' = [pc |-> "sweep", list |-> <<>>, idx |-> 0]
    /\ tickPending' = FALSE
    /\ main' = "serving"
    /\ UNCHANGED <<now, servers, services, service_checks, alerts, lastAlerts, nreports,
                   resp, contacted, cachedServices, poll, handlers, sessions, users,
                   web, ssh, sse>>

\* The process ends and is started again: its goroutines are gone, monitor.New
\* makes an empty lastAlerts and an empty workerSem, Start begins with a sweep;
\* the database file is the same.
Restart ==
    /\ boot.n < MaxRestarts
    /\ boot' = [n |-> boot.n + 1, at |-> now]
    /\ lastAlerts' = EmptyTable
    /\ workerSem' = 0
    /\ tasks' = EmptyBag
    /\ sched' = [pc |-> "sweep", list |-> <<>>, idx |-> 0]
    /\ tickPending' = FALSE
    /\ main' = "serving"
    /\ UNCHANGED <<now, servers, services, service_checks, alerts, nreports, resp,
                   contacted, cachedServices, poll, handlers, sessions, users, web,
                   ssh, sse>>

NextRestart == NextTransport \/ Restart

SpecRestart == InitTransport /\ [][NextRestart]_vars

\* The same host when the alerts table may refuse a row.
NextAlertStore == NextTransport \/ TaskCreateAlertFail

SpecAlertStore == InitTransport /\ [][NextAlertStore]_vars

\* the engine on one host checked by remote commands that may fail or hang,
\* with storage calls that may fail, and the shutdown of main.  The scheduler goroutine, the task goroutines and the
\* clock keep running (weak fairness); the signal that starts the shutdown may
\* never come, but a shutdown that has started goes on
InitLife ==
    /\ InitEngine
    /\ InitFleet([mode |-> ModePull, enabled |-> TRUE, services |-> TwoServices])

EngineLife ==
    \/ SchedGetAll \/ SchedGetAllFail \/ SchedHost \/ SchedAcquire
    \/ SchedTickOverlap \/ SchedReturn
    \/ AdvanceClock
    \/ TaskGetServices \/ TaskGetServicesFail
    \/ TaskCheckPull \/ TaskCheckFail \/ TaskHang
    \/ TaskKilled \/ TaskCheckCancelled \/ TaskSave
    \/ TaskAlertRead \/ TaskCreateAlert \/ TaskMark \/ TaskLastSeen \/ TaskRelease

NextLife == EngineLife \/ MainStop \/ MainWaited \/ MainCancel

SpecLife ==
    /\ InitLife /\ [][NextLife]_vars
    /\ WF_vars(EngineLife) /\ WF_vars(MainWaited) /\ WF_vars(MainCancel)

\* the initial sweep over one host more than there are worker slots, while the
\* services table cannot be read: every task is the shortest one.  The
\* scheduler goroutine and the task goroutines all keep running: weak fairness
ExcessHosts == maxWorkers + 1

ExcessFleet ==
    /\ servers = [id \in 1..ExcessHosts |-> NewServer(id, ModePull, TRUE)]
    /\ services = NoServices

InitExcess == InitEngine /\ ExcessFleet

NextExcess ==
    \/ SchedGetAll \/ SchedHost \/ SchedAcquire
    \/ TaskGetServicesFail \/ TaskRelease

SpecExcess == InitExcess /\ [][NextExcess]_vars /\ WF_vars(NextExcess)

\* ------------------------------------------------------------ service list
\* the variables of the monitoring engine, which the collector, the handlers
\* of its requests and the operator's edits leave alone
Monitoring == <<now, lastAlerts, workerSem, tasks, sched, tickPending, contacted,
                main, sessions, users, web, ssh, boot, sse>>

\* mutant: the request is not tested for an empty token
handleAgentServices_noTokenTest(token) ==
    LET id == FindByToken(token)
    IN  IF id = 0 THEN [code |-> 401, services |-> <<>>]
        ELSE [code |-> 200,
              services |-> SelectSeq(GetServicesByServer(id), LAMBDA svc : svc.enabled)]

\* handleAgentServices: 400 without a token, 401 when no host carries it, else
\* 200 with the rows of GetServicesByServer that are enabled
handleAgentServices(token) ==
    IF token = NoToken THEN [code |-> 400, services |-> <<>>]
    ELSE LET id == FindByToken(token)
         IN  IF id = 0 THEN [code |-> 401, services |-> <<>>]
             ELSE [code |-> 200,
                   services |-> SelectSeq(GetServicesByServer(id),
                                          LAMBDA svc : svc.enabled)]

\* the request and its answer, as poll keeps them
Answered(client, token, answer) ==
    [client |-> client, token |-> token, code |-> answer.code,
     services |-> answer.services]

\* the tokens a client of the service-list endpoint sends
PollTokens == ReportTokens \cup {NoToken}

\* GET /api/agent/services?token=... from any client
AgentPoll ==
    \E token \in PollTokens :
        /\ poll' = Answered("other", token, handleAgentServices(token))
        /\ UNCHANGED <<servers, services, service_checks, alerts, nreports, resp,
                       cachedServices, handlers, Monitoring>>

\* --------------------------------------------------------------- collector
\* the collector installed on host 1: config.Token
AgentToken == TokenOf(1)

NamesOf(rows) == [i \in 1..Len(rows) |-> rows[i].name]

\* mutant: two lists of the same length are taken for equal
servicesEqual_lenOnly(a, b) == Len(a) = Len(b)

\* servicesEqual: same length and the same name at every position
servicesEqual(a, b) ==
    /\ Len(a) = Len(b)
    /\ \A i \in 1..Len(a) : a[i] = b[i]

\* refreshServiceList, the server answers: on 200 the names of the enabled
\* entries replace cachedServices when they differ from it; on any other
\* status the function returns an error
refreshServiceList ==
    LET answer      == handleAgentServices(AgentToken)
        newServices == NamesOf(SelectSeq(answer.services, LAMBDA svc : svc.enabled))
    IN  /\ poll' = Answered("collector", AgentToken, answer)
        /\ cachedServices' =
               IF answer.code = 200 /\ ~servicesEqual(cachedServices, newServices)
               THEN newServices
               ELSE cachedServices
        /\ UNCHANGED <<servers, services, service_checks, alerts, nreports, resp,
                       handlers, Monitoring>>

\* refreshServiceList, the request fails (httpClient.Do returns an error, or
\* the server answers 500 because its storage call failed)
refreshServiceListFail ==
    /\ poll' = Answered("collector", AgentToken, [code |-> 500, services |-> <<>>])
    /\ UNCHANGED <<servers, services, service_checks, alerts, nreports, resp,
                   cachedServices, handlers, Monitoring>>

\* a report handler that has just received its request; "written" is a ghost
\* field: the number of checks the handler has written
NewHandler(client, token, entries) ==
    [client |-> client, token |-> token, entries |-> entries,
     pc |-> "decode", i |-> 0, id |-> 0, svc |-> 0, written |-> 0]

\* checkAndReport: nothing when cachedServices is empty, else one entry per
\* cached name, sent with config.Token
checkAndReport ==
    /\ Len(cachedServices) > 0
    /\ nreports < MaxSent
    /\ nreports' = nreports + 1
    /\ \E st \in [1..Len(cachedServices) -> AgentStatuses] :
           handlers' = Put(handlers,
               NewHandler("collector", AgentToken,
                   [i \in 1..Len(cachedServices) |->
                       [name |-> cachedServices[i], status |-> st[i]]]))
    /\ UNCHANGED <<servers, services, service_checks, alerts, resp,
                   cachedServices, poll, Monitoring>>

\* ---------------------------------------------------- report handler, steps
\* handleAgentReport step by step: every storage call is one step, so that
\* handlers of concurrent requests and the operator's edits interleave

\* the handler moves to the next entry of its report, or to the end of the loop
NextEntry(h) ==
    [h EXCEPT !.i = @ + 1, !.svc = 0,
              !.pc = IF h.i < Len(h.entries) THEN "find" ELSE "seen"]

\* GetAllServers and the search by token: 401 when no host carries it
HandlerAuth ==
    \E h \in BagToSet(handlers) :
        /\ h.pc = "decode"
        /\ LET id == FindByToken(h.token)
           IN  IF id = 0
               THEN /\ handlers' = Take(handlers, h)
                    /\ resp' = [code |-> 401, token |-> h.token, entry |-> h.entries]
               ELSE /\ handlers' = Put(Take(handlers, h),
                                       NextEntry([h EXCEPT !.id = id]))
                    /\ UNCHANGED resp
        /\ UNCHANGED <<servers, services, service_checks, alerts, nreports,
                       cachedServices, poll, Monitoring>>

\* loop head: GetServicesByServer and the search by name
HandlerFind ==
    \E h \in BagToSet(handlers) :
        /\ h.pc = "find"
        /\ LET svc == FindService(h.id, h.entries[h.i].name)
           IN  handlers' = Put(Take(handlers, h),
                               [h EXCEPT !.svc = svc,
                                         !.pc = IF svc = 0 THEN "create" ELSE "check"])
        /\ UNCHANGED <<servers, services, service_checks, alerts, nreports, resp,
                       cachedServices, poll, Monitoring>>

\* "if service == nil": CreateService; when the INSERT fails the entry is
\* skipped ("continue")
HandlerCreate ==
    \E h \in BagToSet(handlers) :
        /\ h.pc = "create"
        /\ IF CanCreateService(h.id, h.entries[h.i].name)
           THEN /\ services' = Append(services,
                       NewService(h.id, h.entries[h.i].name, h.entries[h.i].name, TRUE))
                /\ handlers' = Put(Take(handlers, h),
                                   [h EXCEPT !.svc = Len(services) + 1, !.pc = "check"])
           ELSE /\ handlers' = Put(Take(handlers, h), NextEntry(h))
                /\ UNCHANGED services
        /\ UNCHANGED <<servers, service_checks, alerts, nreports, resp,
                       cachedServices, poll, Monitoring>>

\* a deleted row of services: its id is not given to another row
\* (AUTOINCREMENT), and no host owns it
Deleted == NewService(0, "", "", FALSE)

\* CreateServiceCheck for the entry; the INSERT fails on the foreign key when
\* the service was deleted in between, which the handler only logs
HandlerCheck ==
    \E h \in BagToSet(handlers) :
        /\ h.pc = "check"
        /\ IF services[h.svc] = Deleted
           THEN /\ handlers' = Put(Take(handlers, h), NextEntry(h))
                /\ UNCHANGED service_checks
           ELSE /\ service_checks' =
                       CreateServiceCheck(h.svc, h.entries[h.i].status, "agent")
                /\ handlers' = Put(Take(handlers, h),
                                   NextEntry([h EXCEPT !.written = @ + 1]))
        /\ UNCHANGED <<servers, services, alerts, nreports, resp,
                       cachedServices, poll, Monitoring>>

\* after the loop: UpdateServerLastSeen and the answer 200
HandlerSeen ==
    \E h \in BagToSet(handlers) :
        /\ h.pc = "seen"
        /\ servers' = UpdateServerLastSeen(h.id)
        /\ resp' = [code |-> 200, token |-> h.token, entry |-> h.entries]
        /\ handlers' = Take(handlers, h)
        /\ UNCHANGED <<services, service_checks, alerts, nreports,
                       cachedServices, poll, Monitoring>>

\* ------------------------------------------------------- operator, services
\* the rows of services that exist
Live == {k \in 1..Len(services) : services[k] # Deleted}

\* handleCreateService: CreateService with the operator's row
AddService ==
    \E id \in DOMAIN servers, n \in 1..Len(ServiceNames) :
        /\ Len(services) < MaxServices
        /\ CanCreateService(id, ServiceNames[n])
        /\ services' = Append(services,
               NewService(id, ServiceNames[n], ServiceNames[n], TRUE))
        /\ UNCHANGED <<servers, service_checks, alerts, nreports, resp,
                       cachedServices, poll, handlers, Monitoring>>

\* handleUpdateService: the operator enables or disables a service
SetServiceEnabled ==
    \E k \in Live :
        /\ services' = [services EXCEPT ![k].enabled = ~@]
        /\ UNCHANGED <<servers, service_checks, alerts, nreports, resp,
                       cachedServices, poll, handlers, Monitoring>>

\* handleDeleteService: DELETE FROM services, and ON DELETE CASCADE removes the
\* service's checks and alerts
DeleteService ==
    \E k \in Live :
        /\ services' = [services EXCEPT ![k] = Deleted]
        /\ service_checks' =
               service_checks (-) [c \in {d \in BagToSet(service_checks) :
                                            d.service_id = k} |->
                                      CopiesIn(c, service_checks)]
        /\ alerts' =
               alerts (-) [a \in {d \in BagToSet(alerts) : d.service_id = k} |->
                              CopiesIn(a, alerts)]
        /\ UNCHANGED <<servers, nreports, resp, cachedServices, poll, handlers,
                       Monitoring>>

\* the reports a client sends: one entry, or one entry for each name
ReportBodies ==
    {<<entry>> : entry \in ReportEntries}
        \cup {[n \in 1..Len(ServiceNames) |-> [name |-> ServiceNames[n], status |-> st]] :
                  st \in AgentStatuses}

\* POST /api/agent/report: the request reaches its handler
ReportArrives ==
    \E token \in ReportTokens, entries \in ReportBodies :
        /\ nreports < MaxReports
        /\ nreports' = nreports + 1
        /\ handlers' = Put(handlers, NewHandler("other", token, entries))
        /\ UNCHANGED <<servers, services, service_checks, alerts, resp,
                       cachedServices, poll, Monitoring>>

\* report handlers running side by side for one push host
InitIngest ==
    /\ InitEngine
    /\ \E fleet \in {f \in Fleets : f.mode = ModePush} : InitFleet(fleet)

NextIngest ==
    \/ ReportArrives
    \/ HandlerAuth \/ HandlerFind \/ HandlerCreate \/ HandlerCheck \/ HandlerSeen

SpecIngest == InitIngest /\ [][NextIngest]_vars

\* the service-list endpoint, its clients and the operator editing the service
\* lists.  Host 1 reports through a collector; host 2 is checked by remote
\* commands, carries no token and has no service yet.
PollFleet ==
    /\ servers = [id \in {1, 2} |->
                     NewServer(id, IF id = 1 THEN ModePush ELSE ModePull, TRUE)]
    /\ services = TwoServices

InitPoll == InitEngine /\ PollFleet

NextPoll ==
    \/ AgentPoll \/ Report
    \/ AddService \/ SetServiceEnabled \/ DeleteService

SpecPoll == InitPoll /\ [][NextPoll]_vars

\* the collector of host 1, the handlers of its reports and the operator
\* editing the host's service list
AgentFleet ==
    /\ servers = [id \in {1} |-> NewServer(id, ModePush, TRUE)]
    /\ services = TwoServices

InitAgent == InitEngine /\ AgentFleet

NextAgent ==
    \/ refreshServiceList \/ refreshServiceListFail \/ checkAndReport
    \/ HandlerAuth \/ HandlerFind \/ HandlerCreate \/ HandlerCheck \/ HandlerSeen
    \/ AddService \/ SetServiceEnabled \/ DeleteService

SpecAgent == InitAgent /\ [][NextAgent]_vars

\* ------------------------------------------------------------ web sessions
\* the variables that logging in, authenticating and logging out leave alone
NotWeb == <<servers, services, service_checks, alerts, lastAlerts, workerSem,
            tasks, sched, tickPending, nreports, resp, contacted, main,
            cachedServices, poll, handlers, ssh, boot, sse>>

\* a row of sessions that was deleted; its token is not generated again
\* (auth.GenerateToken draws 32 random bytes)
Gone == [user_id |-> 0, expires_at |-> Null]

\* the cookie values a client sends: a token that was issued, or 0, which no
\* session carries
Cookies == 0..Len(sessions)

\* DB.DeleteSession
DeleteSession(table, token) == [table EXCEPT ![token] = Gone]

\* mutant: the expiry of the session is not looked at
GetSessionByToken_noExpiry(token) ==
    IF token \notin 1..Len(sessions) \/ sessions[token] = Gone
    THEN [ok |-> FALSE, user_id |-> 0, table |-> sessions]
    ELSE [ok |-> TRUE, user_id |-> sessions[token].user_id, table |-> sessions]

\* DB.GetSessionByToken: no row is an error; a row with
\* time.Now().After(ExpiresAt) is deleted and is an error.  "table" is the
\* table sessions after the call.
GetSessionByToken(token) ==
    IF token \notin 1..Len(sessions) \/ sessions[token] = Gone
    THEN [ok |-> FALSE, user_id |-> 0, table |-> sessions]
    ELSE IF now > sessions[token].expires_at
    THEN [ok |-> FALSE, user_id |-> 0, table |-> DeleteSession(sessions, token)]
    ELSE [ok |-> TRUE, user_id |-> sessions[token].user_id, table |-> sessions]

\* DB.GetUser followed by the test "err != nil || !user.Enabled"
UserAdmitted(user_id) == user_id \in DOMAIN users /\ users[user_id].enabled

\* handleLogin with the right password: an enabled user gets a session that
\* expires 24 hours later; a disabled one gets 401
Login ==
    \E u \in DOMAIN users :
        /\ web.n < MaxRequests
        /\ IF users[u].enabled
           THEN /\ sessions' = Append(sessions,
                       [user_id |-> u, expires_at |-> now + sessionTTL])
                /\ web' = [n |-> web.n + 1, op |-> "login",
                           token |-> Len(sessions) + 1, ok |-> TRUE]
           ELSE /\ web' = [n |-> web.n + 1, op |-> "login", token |-> 0, ok |-> FALSE]
                /\ UNCHANGED sessions
        /\ UNCHANGED <<now, users, NotWeb>>

\* RequireAuth on a request that carries the cookie: GetSessionByToken, then
\* GetUser and the enabled test; ok when the request reaches its handler
RequireAuth ==
    \E token \in Cookies :
        /\ web.n < MaxRequests
        /\ LET session == GetSessionByToken(token)
           IN  /\ sessions' = session.table
               /\ web' = [n |-> web.n + 1, op |-> "request", token |-> token,
                          ok |-> session.ok /\ UserAdmitted(session.user_id)]
        /\ UNCHANGED <<now, users, NotWeb>>

\* handleLogout: the session found for the cookie is deleted; the answer is
\* 200 in every case
handleLogout ==
    \E token \in Cookies :
        /\ web.n < MaxRequests
        /\ LET session == GetSessionByToken(token)
           IN  sessions' = IF session.ok THEN DeleteSession(session.table, token)
                           ELSE session.table
        /\ web' = [n |-> web.n + 1, op |-> "logout", token |-> token, ok |-> TRUE]
        /\ UNCHANGED <<now, users, NotWeb>>

\* handleUpdateUser: an administrator disables or enables a user
SetUserEnabled ==
    \E u \in DOMAIN users :
        /\ users' = [users EXCEPT ![u].enabled = ~@]
        /\ UNCHANGED <<now, sessions, web, NotWeb>>

\* ------------------------------------------------------------ SSE manager
NotSse == <<now, servers, services, service_checks, alerts, lastAlerts, workerSem,
            tasks, sched, tickPending, nreports, resp, contacted, main,
            cachedServices, poll, handlers, sessions, users, web, ssh, boot>>

\* api.New before "go api.sseManager.Start(...)": sse.NewManager has made the
\* empty client map and the channels; m.broadcaster is nil
NewManager ==
    [new |-> "spawn",       \* api.New: at the go statement, at SetBroadcaster, returned
     start |-> "none",      \* the goroutine running Manager.Start
     loop |-> FALSE,        \* the goroutine of the select loop runs
     broadcaster |-> FALSE, \* m.broadcaster is not nil
     running |-> FALSE,     \* the goroutine of m.broadcaster runs
     clients |-> <<>>,      \* m.clients: ID -> the connection it points to
     conns |-> <<>>,        \* the ServeHTTP calls, in the order they were made
     queue |-> 0,           \* messages in m.broadcast
     sent |-> 0]            \* messages handed to Broadcast so far

\* the values of time.Now().UnixNano() that ServeHTTP makes client IDs of
ClientIDs == {1, 2}

\* api.New: go api.sseManager.Start(context.Background())
NewGoStart ==
    /\ sse.new = "spawn"
    /\ sse' = [sse EXCEPT !.new = "set", !.start = "loop"]
    /\ UNCHANGED NotSse

\* api.New: api.sseManager.SetBroadcaster(api.sseBroadcaster), then the
\* templates and the routes, and the return
SetBroadcaster ==
    /\ sse.new = "set"
    /\ sse' = [sse EXCEPT !.new = "returned", !.broadcaster = TRUE]
    /\ UNCHANGED NotSse

\* Manager.Start: go func() { for { select ... } }()
StartLoop ==
    /\ sse.start = "loop"
    /\ sse' = [sse EXCEPT !.start = "test", !.loop = TRUE]
    /\ UNCHANGED NotSse

\* Manager.Start: if m.broadcaster != nil { go m.broadcaster(ctx) }; the read
\* is not ordered with the write of SetBroadcaster
StartTest ==
    /\ sse.start = "test"
    /\ sse' = [sse EXCEPT !.start = "done", !.running = sse.broadcaster]
    /\ UNCHANGED NotSse

\* ServeHTTP up to "m.register <- client": the ID is made of the clock
ServeHTTP ==
    \E id \in ClientIDs :
        /\ sse.new = "returned"
        /\ Len(sse.conns) < MaxConns
        /\ sse' = [sse EXCEPT !.conns = Append(@, [id |-> id, pc |-> "register",
                                                   closes |-> 0, buf |-> 0,
                                                   sentClosed |-> FALSE])]
        /\ UNCHANGED NotSse

\* the select loop, case client := <-m.register
MgrRegister ==
    \E k \in 1..Len(sse.conns) :
        /\ sse.loop /\ sse.conns[k].pc = "register"
        /\ sse' = [sse EXCEPT
                      !.clients = [id \in DOMAIN sse.clients \cup {sse.conns[k].id} |->
                                      IF id = sse.conns[k].id THEN k ELSE sse.clients[id]],
                      !.conns[k].pc = "stream"]
        /\ UNCHANGED NotSse

\* ServeHTTP: the request context is done, or the channel was closed; the
\* deferred function waits to send the client to m.unregister
ConnDone ==
    \E k \in 1..Len(sse.conns) :
        /\ sse.conns[k].pc = "stream"
        /\ sse' = [sse EXCEPT !.conns[k].pc = "unregister"]
        /\ UNCHANGED NotSse

\* ServeHTTP: case message, ok := <-client.Channel
ConnReceive ==
    \E k \in 1..Len(sse.conns) :
        /\ sse.conns[k].pc = "stream" /\ sse.conns[k].buf > 0
        /\ sse' = [sse EXCEPT !.conns[k].buf = @ - 1]
        /\ UNCHANGED NotSse

\* the select loop, case client := <-m.unregister: the test is on the ID
Unregistered(k) ==
    IF sse.conns[k].id \in DOMAIN sse.clients
    THEN [sse EXCEPT !.clients = [id \in DOMAIN sse.clients \ {sse.conns[k].id} |->
                                     sse.clients[id]],
                     !.conns[k].closes = @ + 1,
                     !.conns[k].pc = "gone"]
    ELSE [sse EXCEPT !.conns[k].pc = "gone"]

MgrUnregister ==
    \E k \in 1..Len(sse.conns) :
        /\ sse.loop /\ sse.conns[k].pc = "unregister"
        /\ sse' = Unregistered(k)
        /\ UNCHANGED NotSse

\* the clients of the map
Mapped == {sse.clients[id] : id \in DOMAIN sse.clients}

\* the select loop, case message := <-m.broadcast: a send to every client of
\* the map; a client whose channel is full is skipped after a second
MgrBroadcast ==
    /\ sse.loop /\ sse.queue > 0
    /\ sse' = [sse EXCEPT
                  !.queue = @ - 1,
                  !.conns = [k \in 1..Len(sse.conns) |->
                                IF k \notin Mapped THEN sse.conns[k]
                                ELSE IF sse.conns[k].closes > 0
                                THEN [sse.conns[k] EXCEPT !.sentClosed = TRUE]
                                ELSE IF sse.conns[k].buf < chanCap
                                THEN [sse.conns[k] EXCEPT !.buf = @ + 1]
                                ELSE sse.conns[k]]]
    /\ UNCHANGED NotSse

\* sseBroadcaster on a tick with ClientCount() > 0: Manager.Broadcast puts
\* the message into m.broadcast
Broadcast ==
    /\ sse.running /\ sse.sent < MaxBroadcasts
    /\ DOMAIN sse.clients # {}
    /\ sse' = [sse EXCEPT !.queue = @ + 1, !.sent = @ + 1]
    /\ UNCHANGED NotSse

InitSse ==
    /\ InitMonitor /\ InitCollector /\ InitWeb /\ ssh = NoQuery
    /\ servers = [id \in {1} |-> NewServer(id, ModePull, TRUE)]
    /\ services = NoServices
    /\ sse = NewManager

NextSse ==
    \/ NewGoStart \/ SetBroadcaster \/ StartLoop \/ StartTest
    \/ ServeHTTP \/ MgrRegister \/ ConnDone \/ ConnReceive \/ MgrUnregister
    \/ MgrBroadcast \/ Broadcast

SpecSse == InitSse /\ [][NextSse]_vars

\* ------------------------------------------------------- user management
Roles == {RoleSuperAdmin, RoleAdmin, RoleUser}

\* roles.is_super_admin of the role of a users row
IsSuperAdmin(user) == user.role_id = RoleSuperAdmin

\* role_permissions as initDefaultData fills it, for the users.* permissions
RolePermissions(role_id) ==
    CASE role_id = RoleSuperAdmin ->
             {"users.view", "users.create", "users.edit", "users.delete"}
      [] role_id = RoleAdmin -> {"users.view", "users.create", "users.edit"}
      [] OTHER -> {"users.view"}

\* RequirePermissionAPI for the user RequireAuthAPI put into the context
RequirePermissionAPI(actor, permission) ==
    \/ IsSuperAdmin(users[actor])
    \/ permission \in RolePermissions(users[actor].role_id)

\* the answer to a user-management request of actor
Managed(actor, op, ok) ==
    web' = [n |-> web.n + 1, op |-> op, token |-> 0, ok |-> ok, actor |-> actor]

\* the users who can make an authenticated request
Actors == {u \in DOMAIN users : users[u].enabled}

\* POST /api/users: the role_id of the request goes into the new row
handleCreateUser ==
    \E actor \in Actors, role_id \in Roles, enabled \in BOOLEAN :
        /\ web.n < MaxRequests
        /\ Cardinality(DOMAIN users) < MaxUsers
        /\ IF RequirePermissionAPI(actor, "users.create")
           THEN /\ users' = [id \in DOMAIN users \cup {Cardinality(DOMAIN users) + 1} |->
                                IF id \in DOMAIN users THEN users[id]
                                ELSE [enabled |-> enabled, role_id |-> role_id,
                                      password |-> 0]]
                /\ Managed(actor, "create_user", TRUE)
           ELSE /\ Managed(actor, "create_user", FALSE)
                /\ UNCHANGED users
        /\ UNCHANGED <<now, sessions, NotWeb>>

\* PUT /api/users/{id}: only the row of a super administrator is protected,
\* and only from the others; role_id and enabled are taken from the request
handleUpdateUser ==
    \E actor \in Actors, id \in DOMAIN users, role_id \in Roles, enabled \in BOOLEAN :
        /\ web.n < MaxRequests
        /\ IF /\ RequirePermissionAPI(actor, "users.edit")
              /\ ~(IsSuperAdmin(users[id]) /\ actor # id)
           THEN /\ users' = [users EXCEPT ![id].role_id = role_id,
                                          ![id].enabled = enabled]
                /\ Managed(actor, "update_user", TRUE)
           ELSE /\ Managed(actor, "update_user", FALSE)
                /\ UNCHANGED users
        /\ UNCHANGED <<now, sessions, NotWeb>>

\* PUT /api/users/{id}/password with the right current password: one's own
\* password, or anybody's for a super administrator
handleChangePassword ==
    \E actor \in Actors, id \in DOMAIN users :
        /\ web.n < MaxRequests
        /\ IF actor = id \/ IsSuperAdmin(users[actor])
           THEN /\ users' = [users EXCEPT ![id].password = 1 - @]
                /\ Managed(actor, "change_password", TRUE)
           ELSE /\ Managed(actor, "change_password", FALSE)
                /\ UNCHANGED users
        /\ UNCHANGED <<now, sessions, NotWeb>>

\* the instants at which requests are made: the first ones after the start,
\* five minutes apart, and the same ones a day later
Instants == (0..MaxTime) \cup (sessionTTL..(sessionTTL + MaxTime))

\* time passes between two requests
Elapse ==
    \E t \in Instants :
        /\ t > now
        /\ now' = t
        /\ UNCHANGED <<sessions, users, web, NotWeb>>

NextWeb == Login \/ RequireAuth \/ handleLogout \/ SetUserEnabled \/ Elapse

\* the web interface of a site with one administrator and one host
InitSite ==
    /\ InitEngine
    /\ servers = [id \in {1} |-> NewServer(id, ModePull, TRUE)]
    /\ services = NoServices

SpecWeb == InitSite /\ [][NextWeb]_vars

\* the user management of the same site
NextUsers == handleCreateUser \/ handleUpdateUser \/ handleChangePassword

SpecUsers == InitSite /\ [][NextUsers]_vars

\* ------------------------------------------------------------ status query
\* The output of a remote command is a sequence of pieces: a word, blanks and
\* line ends.
Whitespace == {" ", "\r", "\n"}

\* strings.TrimSpace: the blank pieces at both ends are removed
RECURSIVE TrimLeft(_)
TrimLeft(out) ==
    IF out # <<>> /\ Head(out) \in Whitespace THEN TrimLeft(Tail(out)) ELSE out

RECURSIVE TrimRight(_)
TrimRight(out) ==
    IF out # <<>> /\ out[Len(out)] \in Whitespace
    THEN TrimRight(SubSeq(out, 1, Len(out) - 1))
    ELSE out

TrimSpace(out) == TrimRight(TrimLeft(out))

\* the words Get-Service prints, and the spellings a remote shell may give them
WindowsWords == {"Running", "running", "RUNNING", "Stopped", "STOPPED", "Paused",
                 "paused", "StartPending", "StopPending"}

\* strings.ToLower on these words
ToLower(w) ==
    CASE w \in {"Running", "running", "RUNNING"} -> "running"
      [] w \in {"Stopped", "STOPPED"}            -> "stopped"
      [] w \in {"Paused", "paused"}              -> "paused"
      [] w = "StartPending"                      -> "startpending"
      [] w = "StopPending"                       -> "stoppending"
      [] OTHER                                   -> w

\* the words "systemctl is-active" prints, and one in another spelling
LinuxWords == {"active", "inactive", "failed", "activating", "deactivating",
               "unknown", "Active"}

\* the exit status of "systemctl is-active": 0 for an active unit, 3 otherwise
IsActiveExit(w) == IF w = "active" THEN 0 ELSE 3

\* the exit status of ssh when the connection fails, and that of a command
\* that fails without printing a word
SshFailed == 255
CmdFailed == 1

\* a word as the remote command prints it: bare, or followed by a line end
Printed(w) == {<<w>>, <<w, "\n">>, <<w, "\r", "\n">>}

\* the queries a check task makes: the OS family of the host, what the remote
\* command prints and its exit status
Queries ==
    UNION {{[os |-> "linux", output |-> out, exit |-> IsActiveExit(w)] :
               out \in Printed(w)} : w \in LinuxWords}
    \cup UNION {{[os |-> "windows", output |-> out, exit |-> 0] :
                    out \in Printed(w)} : w \in WindowsWords}
    \cup {[os |-> os, output |-> <<>>, exit |-> e] :
             os \in {"linux", "windows"}, e \in {CmdFailed, SshFailed}}
    \cup {[os |-> os, output |-> <<>>, exit |-> 0] : os \in {"darwin", "freebsd"}}

\* executeSSH: exec.Cmd.Output() returns an error when the command exits with a
\* status other than 0, and the output is dropped
executeSSH(output, exit) ==
    IF exit # 0
    THEN [output |-> <<>>, err |-> "exit status"]
    ELSE [output |-> output, err |-> ""]

\* checkLinuxService
checkLinuxService(output, exit) ==
    LET r == executeSSH(output, exit)
    IN  IF r.err # ""
        THEN [status |-> StatusUnknown, error |-> "failed to check service"]
        ELSE LET out == TrimSpace(r.output)
             IN  [status |-> CASE out = <<"active">>   -> StatusRunning
                               [] out = <<"inactive">> -> StatusStopped
                               [] out = <<"failed">>   -> StatusFailed
                               [] out \in {<<"activating">>, <<"deactivating">>}
                                                       -> StatusDegraded
                               [] OTHER                -> StatusUnknown,
                  error |-> ""]

\* checkWindowsService
checkWindowsService(output, exit) ==
    LET r == executeSSH(output, exit)
    IN  IF r.err # ""
        THEN [status |-> StatusUnknown, error |-> "failed to check service"]
        ELSE LET out == TrimSpace(r.output)
                 low == [i \in 1..Len(out) |-> ToLower(out[i])]
             IN  [status |-> CASE low = <<"running">> -> StatusRunning
                               [] low = <<"stopped">> -> StatusStopped
                               [] low = <<"paused">>  -> StatusDegraded
                               [] OTHER               -> StatusUnknown,
                  error |-> ""]

\* SSHChecker.CheckService: the switch on the OS family of the host
CheckService(os, output, exit) ==
    CASE os = "linux"   -> checkLinuxService(output, exit)
      [] os = "windows" -> checkWindowsService(output, exit)
      [] OTHER          -> [status |-> StatusUnknown, error |-> "unsupported OS"]

\* What the metric queries print is a sequence of pieces: words, blanks, and
\* for the CSV of ConvertTo-Csv the quote and the "," between two fields.
Quote == "\""
Comma == "\",\""

\* strconv.Atoi and strconv.ParseInt(s, 10, 64) on the numerals of the samples
Atoi == [s \in {"0", "812", "20480"} |->
            CASE s = "0" -> 0 [] s = "812" -> 812 [] s = "20480" -> 20480]

\* strconv.ParseFloat(s, 64), in hundredths
ParseFloat == [s \in {"0", "812", "20480", "1.5", "20480.5"} |->
                  CASE s = "0" -> 0 [] s = "812" -> 81200 [] s = "20480" -> 2048000
                    [] s = "1.5" -> 150 [] s = "20480.5" -> 2048050]

\* time.Parse("Mon 2006-01-02 15:04:05 MST", s): the instant, in ticks of the
\* clock of the model; a numeric zone is not an abbreviation
StartedAt == "Thu 2026-11-05 10:00:00 UTC"
BadZone   == "Thu 2026-11-05 10:00:00 +03"
ParseTime == [s \in {StartedAt} |-> 0 - 5]

\* a string: the pieces of a text that is one numeral, or anything else
Parsed(table, text) ==
    IF Len(text) = 1 /\ text[1] \in DOMAIN table
    THEN [ok |-> TRUE, val |-> table[text[1]]]
    ELSE [ok |-> FALSE, val |-> 0]

\* strings.Fields: the words between the blanks
Fields(out) == SelectSeq(out, LAMBDA p : p \notin Whitespace)

\* strings.Split(s, sep)
RECURSIVE Split(_, _)
Split(out, sep) ==
    IF \E i \in 1..Len(out) : out[i] = sep
    THEN LET i == CHOOSE i \in 1..Len(out) :
                      out[i] = sep /\ \A j \in 1..(i - 1) : out[j] # sep
         IN  <<SubSeq(out, 1, i - 1)>> \o Split(SubSeq(out, i + 1, Len(out)), sep)
    ELSE <<out>>

\* strings.Trim(s, "\"")
RECURSIVE Trim(_)
Trim(out) ==
    IF out # <<>> /\ Head(out) = Quote THEN Trim(Tail(out))
    ELSE IF out # <<>> /\ out[Len(out)] = Quote THEN Trim(SubSeq(out, 1, Len(out) - 1))
    ELSE out

\* ServiceInfo{}
ServiceInfo == [pid |-> 0, memory |-> 0, cpu |-> 0, uptime |-> 0, steps |-> {}]

\* getLinuxServiceInfo, the ps step: rss and %cpu of the process
LinuxUsage(info, psq) ==
    LET r == executeSSH(psq.output, psq.exit)
        fields == Fields(r.output)
        tried == [info EXCEPT !.steps = @ \cup {"usage"}]
    IN  IF r.err # "" \/ Len(fields) < 2 THEN tried
        ELSE LET mem == Parsed(Atoi, <<fields[1]>>)
                 cpu == Parsed(ParseFloat, <<fields[2]>>)
             IN  [tried EXCEPT !.memory = IF mem.ok THEN mem.val ELSE @,
                               !.cpu = IF cpu.ok THEN cpu.val ELSE @]

\* getLinuxServiceInfo, the ActiveEnterTimestamp step
LinuxUptime(info, upq) ==
    LET r == executeSSH(upq.output, upq.exit)
        out == TrimSpace(r.output)
        t == Parsed(ParseTime, out)
        tried == [info EXCEPT !.steps = @ \cup {"uptime"}]
    IN  IF r.err = "" /\ out # <<>> /\ out # <<"n/a">> /\ t.ok
        THEN [tried EXCEPT !.uptime = now - t.val]
        ELSE tried

\* mutant: the uptime is asked for only when the process id was read
getLinuxServiceInfo_nested(pidq, psq, upq) ==
    LET r == executeSSH(pidq.output, pidq.exit)
        pid == Parsed(Atoi, TrimSpace(r.output))
        tried == [ServiceInfo EXCEPT !.steps = {"pid"}]
    IN  IF r.err = "" /\ pid.ok
        THEN LET known == [tried EXCEPT !.pid = pid.val]
             IN  LinuxUptime(IF pid.val > 0 THEN LinuxUsage(known, psq) ELSE known, upq)
        ELSE tried

\* getLinuxServiceInfo
getLinuxServiceInfo(pidq, psq, upq) ==
    LET r == executeSSH(pidq.output, pidq.exit)
        pid == Parsed(Atoi, TrimSpace(r.output))
        tried == [ServiceInfo EXCEPT !.steps = {"pid"}]
    IN  LinuxUptime(IF r.err = "" /\ pid.ok
                    THEN LET known == [tried EXCEPT !.pid = pid.val]
                         IN  IF pid.val > 0 THEN LinuxUsage(known, psq) ELSE known
                    ELSE tried,
                    upq)

\* getWindowsServiceInfo, the Get-Process step: the second line of the CSV
WindowsUsage(info, psq) ==
    LET r == executeSSH(psq.output, psq.exit)
        lines == Split(r.output, "\n")
        tried == [info EXCEPT !.steps = @ \cup {"usage"}]
    IN  IF r.err # "" \/ Len(lines) =< 1 THEN tried
        ELSE LET fields == Split(Trim(lines[2]), Comma)
             IN  IF Len(fields) < 2 THEN tried
                 ELSE LET mem == Parsed(ParseFloat, fields[1])
                          cpu == Parsed(ParseFloat, fields[2])
                      IN  [tried EXCEPT
                              !.memory = IF mem.ok THEN mem.val \div 100 ELSE @,
                              !.cpu = IF cpu.ok THEN cpu.val ELSE @]

\* getWindowsServiceInfo
getWindowsServiceInfo(pidq, psq, upq) ==
    LET r == executeSSH(pidq.output, pidq.exit)
        pid == Parsed(Atoi, TrimSpace(r.output))
        tried == [ServiceInfo EXCEPT !.steps = {"pid"}]
    IN  IF r.err = "" /\ pid.ok /\ pid.val > 0
        THEN WindowsUsage([tried EXCEPT !.pid = pid.val], psq)
        ELSE tried

\* checkLinuxService, checkWindowsService: "Get service info if running"
\* <<>> stands for the nil pointer
InfoOf(os, status, pidq, psq, upq) ==
    IF status # StatusRunning THEN <<>>
    ELSE IF os = "linux" THEN <<getLinuxServiceInfo(pidq, psq, upq)>>
    ELSE <<getWindowsServiceInfo(pidq, psq, upq)>>

\* checkServicePull: the status and the error of CheckService go into the
\* check, and the metrics when there is an info
PullQuery ==
    /\ ssh.status = ""
    /\ LET r == CheckService(ssh.os, ssh.output, ssh.exit)
           info == InfoOf(ssh.os, r.status, ssh.pidq, ssh.psq, ssh.upq)
       IN  ssh' = [ssh EXCEPT !.status = r.status, !.error = r.error,
                              !.info = IF info # <<>> THEN info[1] ELSE @]
    /\ UNCHANGED <<now, servers, services, service_checks, alerts, lastAlerts,
                   workerSem, tasks, sched, tickPending, nreports, resp, contacted,
                   main, cachedServices, poll, handlers, sessions, users, web,
                   boot, sse>>

\* what "systemctl show -p MainPID" and Get-CimInstance print
PidQueries ==
    {[output |-> out, exit |-> 0] : out \in {<<"812", "\n">>, <<"0", "\n">>, <<"\n">>}}
    \cup {[output |-> <<>>, exit |-> SshFailed]}

\* what ps and Get-Process print; ps exits with 1 when the process is gone
UsageQueries ==
    {[output |-> out, exit |-> 0] :
        out \in {<<" ", "20480", " ", "1.5", "\n">>, <<"20480", "\n">>,
                 <<"-", " ", "1.5", "\n">>, <<"20480", " ", "-", "\n">>,
                 <<Quote, "WS", Comma, "CPU", Quote, "\n",
                   Quote, "20480.5", Comma, "1.5", Quote>>,
                 <<Quote, "WS", Comma, "CPU", Quote, "\n",
                   Quote, "20480.5", Comma, Quote>>,
                 <<Quote, "WS", Comma, "CPU", Quote, "\r", "\n",
                   Quote, "20480.5", Comma, "1.5", Quote, "\r">>}}
    \cup {[output |-> <<>>, exit |-> CmdFailed]}

\* what "systemctl show -p ActiveEnterTimestamp" prints
UptimeQueries ==
    {[output |-> out, exit |-> 0] :
        out \in {<<StartedAt, "\n">>, <<BadZone, "\n">>, <<"n/a", "\n">>, <<"\n">>}}
    \cup {[output |-> <<>>, exit |-> SshFailed]}

\* one status query of a check task, for every query of Queries
InitQuery ==
    /\ InitMonitor /\ InitCollector /\ InitWeb /\ sse = NoSse
    /\ servers = [id \in {1} |-> NewServer(id, ModePull, TRUE)]
    /\ services = TwoServices
    /\ \E q \in Queries, pidq \in PidQueries, psq \in UsageQueries, upq \in UptimeQueries :
           ssh = [os |-> q.os, output |-> q.output, exit |-> q.exit,
                  pidq |-> pidq, psq |-> psq, upq |-> upq,
                  status |-> "", error |-> "", info |-> ServiceInfo]

SpecQuery == InitQuery /\ [][PullQuery]_vars

\* ===================================================================== claims
\* an accepted report of the host's agent is being answered in this step
ReportAcceptedFor(id) ==
    /\ nreports' = nreports + 1
    /\ resp'.code = 200
    /\ servers[id].token = resp'.token

\* C1: two alerts of one (host, service) pair are never persisted less than the
\* cooldown apart, whatever the interleaving of the check tasks.
SamePair(a, b) == a.server_id = b.server_id /\ a.service_id = b.service_id

C1_AlertsSpacedByCooldown ==
    \A a \in BagToSet(alerts) :
        /\ CopiesIn(a, alerts) = 1
        /\ \A b \in BagToSet(alerts) :
               (b # a /\ SamePair(a, b)) =>
                   \/ a.created_at - b.created_at >= alertCooldown
                   \/ b.created_at - a.created_at >= alertCooldown

\* C2: at most maxWorkers check tasks exist at any moment, over all sweeps; the
\* slots held are exactly the live tasks (each slot is released once, when its
\* task ends); and while all slots are held the dispatcher stays where it is.
C2_PoolBound ==
    /\ [](/\ BagCardinality(tasks) =< maxWorkers
          /\ workerSem = BagCardinality(tasks))
    /\ [][(sched.pc = "acquire" /\ BagCardinality(tasks) >= maxWorkers)
              => sched' = sched]_vars

C2_Witness ==
    /\ sched.pc = "acquire"
    /\ BagCardinality(tasks) = maxWorkers
    /\ \E t \in BagToSet(tasks) : t.pc = "release"

\* C3: the check task of a pull host has persisted, when its loop is over,
\* exactly one check for each enabled service it listed and none for a
\* disabled one.
Count(seq, x) == Cardinality({k \in 1..Len(seq) : seq[k] = x})

LoopDone(t) == t.pc \in {"lastseen", "release"}

C3_OneCheckPerEnabledService ==
    \A t \in BagToSet(tasks) :
        (t.srv.mode = ModePull /\ LoopDone(t)) =>
            /\ \A k \in 1..Len(t.svcs) :
                   Count(t.written, t.svcs[k].id) = IF t.svcs[k].enabled THEN 1 ELSE 0
            /\ \A k \in 1..Len(t.written) :
                   \E c \in ChecksOf(t.written[k]) : c.by = "remote"

C3_Witness ==
    \E t \in BagToSet(tasks) :
        /\ t.srv.mode = ModePull /\ LoopDone(t)
        /\ Len(t.written) = 1
        /\ \E k \in 1..Len(t.svcs) : ~t.svcs[k].enabled

\* C4: a push host the idle rule has set to idle is idle when the tick has
\* completed: it leaves idle only when one of its reports is accepted (or the
\* operator disconnects it).
C4_IdleUntilReport ==
    [][\A id \in DOMAIN servers :
          (/\ servers[id].mode = ModePush
           /\ servers[id].status = ConnectionIdle
           /\ servers'[id].status # ConnectionIdle)
          => (ReportAcceptedFor(id) \/ servers'[id].status = ConnectionDisconnected)]_vars

\* C5: only an accepted report moves a host to connected, whatever its mode.
C5_OnlyReportsConnect ==
    [][\A id \in DOMAIN servers :
          (/\ servers[id].status # ConnectionConnected
           /\ servers'[id].status = ConnectionConnected)
          => ReportAcceptedFor(id)]_vars

\* C6 (as claimed): whenever a check task looks at an enabled service of a push
\* host whose last agent report is older than 2 x interval, it yields a
\* synthesized unknown check, at that tick and at every later one.
AgentTimes(service_id) ==
    {c.checked_at : c \in {d \in ChecksOf(service_id) : d.by = "agent"}}

AllTimes(service_id) == {c.checked_at : c \in ChecksOf(service_id)}

Older(times) == times # {} /\ \A at \in times : now - at > 2 * interval

PushJudging(t) == t.pc = "check" /\ t.srv.mode = ModePush

JudgedFresh(t) == tasks' = Put(Take(tasks, t), Advance(t))

C7_UnknownTokenWritesNothing ==
    [][(/\ nreports' = nreports + 1
        /\ \A id \in DOMAIN servers : servers[id].token # resp'.token)
       => (/\ resp'.code = 401
           /\ UNCHANGED <<servers, services, service_checks, alerts, lastAlerts>>)]_vars

C7_Witness == nreports > 0 /\ resp.code = 401

\* C8: an accepted report adds exactly one check; it adds one service row
\* (enabled, display name = name) when the host has no service of that name and
\* none otherwise; no two rows ever share (host, name).
KnownService(id, name) ==
    \E k \in 1..Len(services) : services[k].server_id = id /\ services[k].name = name

C8_AutoCreateOnce ==
    /\ [][\A id \in DOMAIN servers :
             ReportAcceptedFor(id) =>
                 /\ BagCardinality(service_checks') = BagCardinality(service_checks) + 1
                 /\ services' =
                        IF KnownService(id, resp'.entry.name) THEN services
                        ELSE Append(services,
                                    [server_id |-> id, name |-> resp'.entry.name,
                                     display_name |-> resp'.entry.name,
                                     enabled |-> TRUE])]_vars
    /\ [](\A j, k \in 1..Len(services) :
             (services[j].server_id = services[k].server_id
              /\ services[j].name = services[k].name) => j = k)

C8_Witness ==
    /\ nreports = 2 /\ resp.code = 200
    /\ \E k \in 1..Len(services) :
           /\ services[k].name = resp.entry.name
           /\ services[k].display_name = resp.entry.name
           /\ \E c \in ChecksOf(k) : c.by = "agent" /\ CopiesIn(c, service_checks) = 2

\* C9: the path that writes a host's checks is fixed by its mode: reports write
\* only for push hosts, the remote-command path only for pull and hybrid hosts.
ModeOfCheck(c) == servers[services[c.service_id].server_id].mode

C9_PathFixedByMode ==
    \A c \in BagToSet(service_checks) :
        /\ c.by = "agent" => ModeOfCheck(c) = ModePush
        /\ c.by = "remote" => ModeOfCheck(c) \in {ModePull, ModeHybrid}

\* C10: the last_seen of a push host changes only when one of its reports is
\* accepted; a check task leaves it alone.
C10_PushLastSeenOnlyByReport ==
    [][\A id \in DOMAIN servers :
          (/\ servers[id].mode = ModePush
           /\ servers'[id].last_seen # servers[id].last_seen)
          => ReportAcceptedFor(id)]_vars

\* the task t takes the step
Acted(t) == CopiesIn(t, tasks') < CopiesIn(t, tasks)

AlertDue(key) ==
    key \notin DOMAIN lastAlerts \/ now - lastAlerts[key] >= alertCooldown

Holds(message, piece) == \E k \in 1..Len(message) : message[k] = piece

AlertOf(t, a) ==
    /\ a.server_id = t.srv.id
    /\ a.service_id = t.svcs[t.i].id
    /\ a.status = t.status
    /\ Holds(a.message, t.svcs[t.i].display_name)
    /\ Holds(a.message, servers[t.srv.id].name)
    /\ Holds(a.message, t.status)
    /\ (t.error # "" => Holds(a.message, t.error))
    /\ a.sent_via = "telegram"
    /\ a.created_at = now

C12_AlertPersistedWhenDue ==
    [][\A t \in BagToSet(tasks) :
          Acted(t) =>
              /\ (t.pc = "alert" /\ AlertDue(AlertKey(t))) =>
                     tasks' = Put(Take(tasks, t), [t EXCEPT !.pc = "create"])
              /\ t.pc = "create" =>
                     /\ BagCardinality(alerts') = BagCardinality(alerts) + 1
                     /\ \E a \in BagToSet(alerts') :
                            /\ CopiesIn(a, alerts') = CopiesIn(a, alerts) + 1
                            /\ AlertOf(t, a)
              /\ t.pc = "mark" =>
                     /\ AlertKey(t) \in DOMAIN lastAlerts'
                     /\ lastAlerts'[AlertKey(t)] = now]_vars

C12_Witness ==
    \E a, b \in BagToSet(alerts) :
        /\ SamePair(a, b)
        /\ b.created_at - a.created_at >= alertCooldown
        /\ <<b.server_id, b.service_id>> \in DOMAIN lastAlerts
        /\ lastAlerts[<<b.server_id, b.service_id>>] = b.created_at

\* C13: handleAlert, given a running check, creates no alert and leaves the
\* last-alert table alone: no alert has status running, the alert steps are
\* never taken with a running check, and an entry of the table is never removed
\* or set back.
C13_RunningCheckChangesNothing ==
    /\ [](\A t \in BagToSet(tasks) :
             t.pc \in {"alert", "create", "mark"} => t.status # StatusRunning)
    /\ [](\A a \in BagToSet(alerts) : a.status # StatusRunning)
    /\ [][\A t \in BagToSet(tasks) :
             (Acted(t) /\ t.pc = "save" /\ t.status = StatusRunning) =>
                 alerts' = alerts /\ lastAlerts' = lastAlerts]_vars
    /\ [][\A key \in DOMAIN lastAlerts :
             key \in DOMAIN lastAlerts' /\ lastAlerts'[key] >= lastAlerts[key]]_vars

C13_Witness ==
    \E a \in BagToSet(alerts) :
        /\ <<a.server_id, a.service_id>> \in DOMAIN lastAlerts
        /\ lastAlerts[<<a.server_id, a.service_id>>] = a.created_at
        /\ BagCardinality(alerts) = 1
        /\ \E c \in ChecksOf(a.service_id) :
               c.status = StatusRunning /\ c.checked_at > a.created_at

\* C14: a connection status is always one of the four, and only a push host
\* is ever moved to idle.
C14_IdleOnlyForPush ==
    /\ [](\A id \in DOMAIN servers : servers[id].status \in ConnectionStatuses)
    /\ [][\A id \in DOMAIN servers :
             (servers[id].status # ConnectionIdle /\ servers'[id].status = ConnectionIdle)
                 => servers[id].mode = ModePush]_vars

C14_Witness ==
    \E id \in DOMAIN servers :
        servers[id].mode = ModePush /\ servers[id].status = ConnectionIdle

\* C15: a failure in the check of one host does not stop the sweep: no step of
\* a check task moves the dispatcher, the dispatcher goes through the list one
\* position at a time up to its end and starts a task at every enabled host;
\* and a remote command of a pull or hybrid host that fails always leads to
\* CreateServiceCheck with status unknown or failed, which is the status of the
\* row the write stores.
SweepOver == [pc |-> "wait", list |-> <<>>, idx |-> 0]

SweepOn ==
    IF sched.idx = Len(sched.list) THEN SweepOver
    ELSE [sched EXCEPT !.pc = "host", !.idx = sched.idx + 1]

C16_ExcessHostsDelayedNotDropped ==
    /\ [][(sched.pc = "acquire" /\ sched' # sched) =>
              \E t \in BagToSet(tasks') :
                  /\ CopiesIn(t, tasks') = CopiesIn(t, tasks) + 1
                  /\ t.srv.id = sched.list[sched.idx].id]_vars
    /\ <>(sched.pc = "wait" /\ tasks = EmptyBag /\ workerSem = 0)

\* the last host has waited for a slot: its task runs in a full pool
C16_Witness ==
    /\ BagCardinality(tasks) = maxWorkers
    /\ \E t \in BagToSet(tasks) : t.srv.id = ExcessHosts /\ t.pc = "release"

\* C17: no timer expiry is lost while the dispatcher is blocked on a full pool:
\* the sweep of every expiry still runs.  (The ticker keeps one undelivered
\* tick; an expiry that finds one is dropped.)
DispatcherBlocked == sched.pc = "acquire" /\ workerSem = maxWorkers

TimerExpires == now' = now + 1 /\ (now + 1) % interval = 0

C17_NoTickSkipped ==
    [][(DispatcherBlocked /\ TimerExpires) => ~tickPending]_vars

\* C18: every remote command ends: a command that hangs is ended by a timeout
\* of its own, without the context being cancelled.
Hung == \E t \in BagToSet(tasks) : t.pc = "hung"

C18_RemoteCommandTerminates == Hung ~> (~Hung \/ ctxDone)

\* C19: once Stop has been called or the context is cancelled, no sweep begins
\* and no check task is started.
SweepBegins == sched.pc = "wait" /\ sched'.pc = "sweep"

TaskStarted == BagCardinality(tasks') > BagCardinality(tasks)

C19_NoDispatchAfterStop ==
    [][(stopCh \/ ctxDone) => (~SweepBegins /\ ~TaskStarted)]_vars

\* C20: cancelling the context does not abort a remote command in flight: no
\* command ends by being killed.
C20_CancelLeavesCommandAlone ==
    \A t \in BagToSet(tasks) : t.error # KillError

\* C21: Start returns only when Stop has been called or the context has been
\* cancelled; a failing storage call or remote command never makes it return.
C21_StartReturnsOnlyOnStop ==
    /\ [](sched.pc = "returned" => (stopCh \/ ctxDone))
    /\ [][(sched.pc # "returned" /\ sched'.pc = "returned") =>
              (sched.pc = "wait" /\ (stopCh \/ ctxDone))]_vars

\* Start has returned after a sweep in which a remote command failed
C21_Witness ==
    /\ sched.pc = "returned"
    /\ \E c \in BagToSet(service_checks) : c.status = StatusUnknown

\* the ids of the services of host id that exist and are enabled
EnabledOf(id) ==
    {k \in 1..Len(services) : /\ services[k] # Deleted
                              /\ services[k].server_id = id
                              /\ services[k].enabled}

\* C22: a service-list request with a token is answered with exactly the
\* enabled services of the host that owns the token, never a disabled service
\* and never a service of another host; with an empty token or one that no
\* host owns it is answered with an error and no service data.
C22_PollReturnsEnabledServicesOfOwner ==
    [][poll' # poll =>
          LET owners == {id \in DOMAIN servers : servers[id].token = poll'.token}
              listed == {poll'.services[i].id : i \in 1..Len(poll'.services)}
          IN  IF poll'.token = NoToken \/ owners = {}
              THEN poll'.code \in {400, 401} /\ poll'.services = <<>>
              ELSE /\ poll'.code = 200
                   /\ Cardinality(listed) = Len(poll'.services)
                   /\ \E id \in owners : listed = EnabledOf(id)]_vars

C22_Witness ==
    /\ poll.code = 200
    /\ poll.services # <<>>
    /\ \E k \in 1..Len(services) :
           services[k].server_id = FindByToken(poll.token) /\ ~services[k].enabled
    /\ \E k \in 1..Len(services) :
           services[k].server_id \notin {0, FindByToken(poll.token)}
           /\ services[k].enabled

\* the names of the enabled services of host id, in the order of the listing
EnabledNames(id) ==
    SelectSeq(ServiceNames,
              LAMBDA n : \E k \in EnabledOf(id) : services[k].name = n)

Valid(token) ==
    /\ token \in 1..Len(sessions)
    /\ sessions[token] # Gone
    /\ now =< sessions[token].expires_at
    /\ sessions[token].user_id \in DOMAIN users
    /\ users[sessions[token].user_id].enabled

ReportedAt(id) ==
    {c.checked_at : c \in {d \in BagToSet(service_checks) :
                              d.by = "agent" /\ services[d.service_id].server_id = id}}

\* C25: the scheduler never moves to idle a push host whose latest accepted
\* report is less than five minutes old, also when the report was accepted
\* after the sweep read the list of hosts.
C25_FreshHostNotSetIdle ==
    [][\A id \in DOMAIN servers :
          (servers[id].status # ConnectionIdle /\ servers'[id].status = ConnectionIdle)
              => \A at \in ReportedAt(id) : Since(at) >= idleThreshold]_vars

\* C26: when two reports for the same host, handled side by side, name the
\* same service that the host does not have yet, one service row is created
\* and the handler of each report writes the check of each of its entries.
C26_ConcurrentReportsBothChecked ==
    /\ \A k, l \in 1..Len(services) :
           (/\ services[k].server_id = services[l].server_id
            /\ services[k].name = services[l].name) => k = l
    /\ \A h \in BagToSet(handlers) :
           h.pc = "seen" => h.written = Len(h.entries)

\* C27: once Stop has returned no check task is running, whatever the
\* dispatcher was doing when Stop was called.
C27_StopLeavesNoTask ==
    main \in {"stopped", "exited"} => tasks = EmptyBag

\* C28: a report that carries the empty token is never accepted, also when a
\* host has no agent token: it is answered with an error and writes nothing.
C28_EmptyTokenRejected ==
    [][(nreports' = nreports + 1 /\ resp'.token = NoToken) =>
          (/\ resp'.code # 200
           /\ UNCHANGED <<servers, services, service_checks>>)]_vars

\* C29: in a sweep the idle rule is applied to every host of the list, enabled
\* or not, and a check task exists only for an enabled host; the scheduler
\* writes no check and no alert for a disabled host or for a disabled service,
\* and the last_seen of a disabled host changes only when a report is accepted.
C29_DisabledSkippedButIdleChecked ==
    /\ [][(sched.pc = "host" /\ sched' # sched) =>
              LET row == sched.list[sched.idx]
              IN  (/\ row.mode = ModePush
                   /\ row.status = ConnectionConnected
                   /\ row.last_seen # Null
                   /\ now - row.last_seen > idleThreshold)
                      => servers'[row.id].status = ConnectionIdle]_vars
    /\ [](\A t \in BagToSet(tasks) : servers[t.srv.id].enabled)
    /\ [](\A c \in BagToSet(service_checks) :
              c.by # "agent" =>
                  /\ services[c.service_id].enabled
                  /\ servers[services[c.service_id].server_id].enabled)
    /\ [](\A a \in BagToSet(alerts) :
              services[a.service_id].enabled /\ servers[a.server_id].enabled)
    /\ [][\A id \in DOMAIN servers :
              (~servers[id].enabled /\ servers'[id].last_seen # servers[id].last_seen)
                  => nreports' = nreports + 1]_vars

\* a disabled push host was moved to idle by a sweep
C29_Witness ==
    \E id \in DOMAIN servers :
        /\ ~servers[id].enabled
        /\ servers[id].status = ConnectionIdle
        /\ sched.pc = "wait"

\* the word a command printed: its piece that is not blank ("" when none)
WordOf(output) ==
    IF \E i \in 1..Len(output) : output[i] \notin Whitespace
    THEN output[CHOOSE i \in 1..Len(output) : output[i] \notin Whitespace]
    ELSE ""

\* the status the word stands for, by OS family
StatusFor(os, w) ==
    CASE os = "linux" ->
             (CASE w = "active"   -> StatusRunning
                [] w = "inactive" -> StatusStopped
                [] w = "failed"   -> StatusFailed
                [] w \in {"activating", "deactivating"} -> StatusDegraded
                [] OTHER          -> StatusUnknown)
      [] os = "windows" ->
             (CASE w \in {"Running", "running", "RUNNING"} -> StatusRunning
                [] w \in {"Stopped", "stopped", "STOPPED"} -> StatusStopped
                [] w \in {"Paused", "paused", "PAUSED"}    -> StatusDegraded
                [] OTHER          -> StatusUnknown)
      [] OTHER -> StatusUnknown

\* C30: the status a pull check records is the one the printed word stands for
\* in the OS family of the host, whatever the exit status of the query; for an
\* OS family that is not supported it is unknown, with an error.
C30_StatusFollowsPrintedWord ==
    ssh.status # "" =>
        /\ ssh.status = StatusFor(ssh.os, WordOf(ssh.output))
        /\ ssh.os \notin {"linux", "windows"} => ssh.error # ""

\* C31: when the connection of a status query fails, the check has the status
\* unknown, an error text and no metrics, and it is stored; the task goes on
\* with the next enabled service and ends only after the last one.
C31_TransportFailureYieldsUnknown ==
    /\ [][\A t \in BagToSet(tasks) :
              (Acted(t) /\ t.pc = "check") =>
                  \E u \in BagToSet(tasks') :
                      /\ CopiesIn(u, tasks') = CopiesIn(u, tasks) + 1
                      /\ u.pc = "save" /\ u.i = t.i
                      /\ u.error # "" =>
                             u.status = StatusUnknown /\ u.info = NoInfo]_vars
    /\ [][\A t \in BagToSet(tasks) :
              (Acted(t) /\ t.pc = "save" /\ t.error # "") =>
                  service_checks' =
                      Put(service_checks,
                          [service_id |-> t.svcs[t.i].id, status |-> StatusUnknown,
                           checked_at |-> now, by |-> "remote"])]_vars
    /\ [](\A t \in BagToSet(tasks) :
              t.pc \in {"lastseen", "release"} =>
                  \A k \in 1..Len(t.svcs) :
                      t.svcs[k].enabled =>
                          \E j \in 1..Len(t.written) : t.written[j] = t.svcs[k].id)

\* the query of the first service failed on its connection, and the task has
\* checked the second service all the same
C31_Witness ==
    \E t \in BagToSet(tasks) :
        /\ t.pc = "lastseen" /\ Len(t.written) = 2
        /\ \E c \in ChecksOf(t.written[1]) : c.status = StatusUnknown
        /\ \E c \in ChecksOf(t.written[2]) : c.status = StatusRunning

\* C32: when a check task comes to an enabled service of a push host that has
\* no check at all, it builds a check with status unknown and the text "No data
\* received from agent", stores it and hands it to the alert generator; no
\* remote command is sent to the host.
C32_NoDataYieldsUnknown ==
    /\ [][\A t \in BagToSet(tasks) :
              (/\ Acted(t) /\ t.pc = "check" /\ t.srv.mode = ModePush
               /\ ChecksOf(t.svcs[t.i].id) = {}) =>
                  /\ contacted' = contacted
                  /\ \E u \in BagToSet(tasks') :
                         /\ CopiesIn(u, tasks') = CopiesIn(u, tasks) + 1
                         /\ u.pc = "save" /\ u.i = t.i
                         /\ u.status = StatusUnknown
                         /\ u.error = "No data received from agent"]_vars
    /\ [][\A t \in BagToSet(tasks) :
              (Acted(t) /\ t.pc = "save" /\ t.srv.mode = ModePush) =>
                  /\ service_checks' =
                         Put(service_checks,
                             [service_id |-> t.svcs[t.i].id, status |-> StatusUnknown,
                              checked_at |-> now, by |-> "stale"])
                  /\ \E u \in BagToSet(tasks') :
                         /\ CopiesIn(u, tasks') = CopiesIn(u, tasks) + 1
                         /\ u.pc = "alert" /\ u.i = t.i]_vars
    /\ [](\A t \in BagToSet(tasks) : t.srv.mode = ModePush => t.srv.id \notin contacted)

\* the alert generator has the check synthesized for a service without data
C32_Witness ==
    \E t \in BagToSet(tasks) :
        /\ t.srv.mode = ModePush /\ t.pc = "alert"
        /\ t.error = "No data received from agent"
        /\ \A c \in ChecksOf(t.svcs[t.i].id) : c.by = "stale"

AlertsOf(key) == {a \in BagToSet(alerts) : <<a.server_id, a.service_id>> = key}

\* C33: a step of handleAlert in which the alert is not stored leaves the
\* last-alert times as they are and does not lead to the step that writes them;
\* every last-alert time belongs to a pair with a stored alert that is not
\* younger than it; so a pair without a stored alert is never in cooldown.
C33_LastAlertOnlyAfterStoredAlert ==
    /\ [][\A t \in BagToSet(tasks) :
              (Acted(t) /\ t.pc = "create" /\ alerts' = alerts) =>
                  /\ lastAlerts' = lastAlerts
                  /\ \A u \in BagToSet(tasks') :
                         CopiesIn(u, tasks') > CopiesIn(u, tasks) => u.pc # "mark"]_vars
    /\ [](\A key \in DOMAIN lastAlerts :
              \E a \in AlertsOf(key) : a.created_at =< lastAlerts[key])
    /\ [](\A t \in BagToSet(tasks) :
              (t.pc = "alert" /\ AlertsOf(AlertKey(t)) = {}) => ~InCooldown(AlertKey(t)))

\* after a failed store, a later non-running check of the pair has passed the
\* cooldown test
C33_Witness ==
    /\ BagCardinality(tasks) = 1
    /\ \E t \in BagToSet(tasks) :
           /\ t.pc = "create"
           /\ AlertsOf(AlertKey(t)) = {}
           /\ \E c, d \in ChecksOf(t.svcs[t.i].id) :
                  /\ c.status # StatusRunning /\ d.status # StatusRunning
                  /\ c.checked_at < d.checked_at

\* the process id was printed as a numeral by a query that succeeded
PidRead == ssh.pidq.exit = 0 /\ TrimSpace(ssh.pidq.output) \in {<<"812">>, <<"0">>}

\* the start time was printed in the layout by a query that succeeded
UptimeRead == ssh.upq.exit = 0 /\ TrimSpace(ssh.upq.output) = <<StartedAt>>

\* C34: for a service whose status query said running, a metric query that
\* fails or prints something unreadable leaves its metric at zero, the status
\* stays running and the error text empty, and the steps that do not depend on
\* it are made all the same: the uptime on Linux whatever became of the process
\* id and of the usage, the CPU when the memory is unreadable.
C34_MetricFailureLeavesZero ==
    ssh.status = StatusRunning =>
        /\ ssh.error = ""
        /\ "pid" \in ssh.info.steps
        /\ ~PidRead => ssh.info.pid = 0
        /\ (PidRead /\ ssh.info.pid > 0) => "usage" \in ssh.info.steps
        /\ ssh.psq.exit # 0 => ssh.info.memory = 0 /\ ssh.info.cpu = 0
        /\ (/\ ssh.os = "linux" /\ "usage" \in ssh.info.steps
            /\ ssh.psq.output = <<"-", " ", "1.5", "\n">>) =>
               ssh.info.memory = 0 /\ ssh.info.cpu = 150
        /\ (/\ ssh.os = "linux" /\ "usage" \in ssh.info.steps
            /\ ssh.psq.output = <<"20480", " ", "-", "\n">>) =>
               ssh.info.memory = 20480 /\ ssh.info.cpu = 0
        /\ (/\ ssh.os = "windows" /\ "usage" \in ssh.info.steps
            /\ ssh.psq.output = <<Quote, "WS", Comma, "CPU", Quote, "\n",
                                  Quote, "20480.5", Comma, Quote>>) =>
               ssh.info.memory = 20480 /\ ssh.info.cpu = 0
        /\ ~UptimeRead => ssh.info.uptime = 0
        /\ ssh.os = "linux" => "uptime" \in ssh.info.steps
        /\ (ssh.os = "linux" /\ UptimeRead) => ssh.info.uptime > 0

\* the process id could not be read, and the uptime was read all the same
C34_Witness ==
    /\ ssh.status = StatusRunning /\ ssh.os = "linux"
    /\ ssh.pidq.exit # 0 /\ ssh.info.pid = 0
    /\ ssh.info.uptime > 0

\* C35: the last-alert times do not outlive the process: each of them was
\* written since the last start, after an alert of its pair stored since then;
\* a check that is not running and finds no last-alert time of its pair has an
\* alert created, whatever the alerts table holds from before the restart.
C35_CooldownForgottenOnRestart ==
    /\ [](\A key \in DOMAIN lastAlerts :
              /\ lastAlerts[key] >= boot.at
              /\ \E a \in AlertsOf(key) :
                     boot.at =< a.created_at /\ a.created_at =< lastAlerts[key])
    /\ [][\A t \in BagToSet(tasks) :
              (Acted(t) /\ t.pc = "alert" /\ boot' = boot
               /\ AlertKey(t) \notin DOMAIN lastAlerts) =>
                  \E u \in BagToSet(tasks') :
                      /\ CopiesIn(u, tasks') = CopiesIn(u, tasks) + 1
                      /\ u.pc = "create" /\ u.i = t.i]_vars
    /\ [][\A t \in BagToSet(tasks) :
              (Acted(t) /\ t.pc = "create" /\ boot' = boot) =>
                  \E a \in AlertsOf(AlertKey(t))' :
                      /\ a.created_at = now
                      /\ CopiesIn(a, alerts') = CopiesIn(a, alerts) + 1]_vars

\* an alert of a pair is stored after a restart, less than the cooldown after
\* the alert of the same pair that was stored before it
C35_Witness ==
    /\ boot.n = 1
    /\ \E a, b \in BagToSet(alerts) :
           /\ a.server_id = b.server_id /\ a.service_id = b.service_id
           /\ a.created_at < boot.at /\ boot.at =< b.created_at
           /\ b.created_at - a.created_at < alertCooldown

\* C36: a user-management request of a user who is not a super administrator
\* leaves the set of super administrators without a new member.
C36_NoEscalationToSuperAdmin ==
    [][(web'.n # web.n /\ ~IsSuperAdmin(users[web'.actor])) =>
           \A id \in DOMAIN users' :
               IsSuperAdmin(users'[id]) => id \in DOMAIN users /\ IsSuperAdmin(users[id])]_vars

\* C37: when api.New has returned and Manager.Start has finished, the
\* broadcaster installed by SetBroadcaster is running.
C37_BroadcasterRunsAfterNew ==
    (sse.new = "returned" /\ sse.start = "done") => sse.running

\* C38: the channel of a client is closed at most once, no message is sent on
\* a closed channel, and the client map holds a client exactly from its
\* registration to its unregistration.
C38_ClientMapFollowsRegistration ==
    sse.new # "none" =>
        \A k \in 1..Len(sse.conns) :
            /\ sse.conns[k].closes =< 1
            /\ ~sse.conns[k].sentClosed
            /\ k \in Mapped <=> sse.conns[k].pc \in {"stream", "unregister"}

====
